---- MODULE Spec2Model ----
(***************************************************************************)
(* A model of ddrive: the working tree, the catalog (files table), the     *)
(* action history, and the content-addressed object store, driven by the   *)
(* commands add, rm, verify and prune.                                     *)
(*                                                                         *)
(* Three specifications share the variables:                               *)
(*   Spec        the commands of src/cli/*.rs (the current command set)    *)
(*   SpecLegacy  the add command of src/add.rs (the earlier variant)       *)
(*   SpecDb      the operations the Database of src/database.rs exposes    *)
(*                                                                         *)
(* Paths are sequences of one-character strings, so that str::starts_with  *)
(* and Path::strip_prefix are computed as the code computes them.          *)
(* Time is a counter of seconds; CURRENT_TIMESTAMP and Utc::now() read it. *)
(***************************************************************************)
EXTENDS Integers, Sequences, FiniteSets, TLC

\* ------------------------------------------------------------------ bounds
MaxTime == 2
MaxCmds == 3
MaxEnv == 1
MaxContent == 2
RetentionSecs == 1
IntervalSecs == 1
MaxMoves == 2
MaxInitCmds == 4
MaxVerifyCmds == 4

\* ------------------------------------------------------------------- paths
PA == <<"a", "/", "f">>
PB == <<"a", "/", "g">>
PC == <<"a", "b", "/", "f">>
Paths == {PA, PB, PC}
\* ORDER BY path, and the order in which a scan lists the tree
PathOrder == <<PA, PB, PC>>

RepoRoot == <<"/", "r">>
\* the commands run with the repository root as working directory
Cwd == RepoRoot

\* the <path> arguments of add: ".", "a" and "./a"
ArgDot == <<".">>
ArgA == <<"a">>
ArgDotA == <<".", "/", "a">>
AddArgs == {ArgDot, ArgA, ArgDotA}

Contents == 1..MaxContent
Null == -1
NoSum == <<>>
NoPath == <<>>

StartsWith(s, prefix) ==
    /\ Len(prefix) <= Len(s)
    /\ SubSeq(s, 1, Len(prefix)) = prefix

IsAbsolute(p) == Len(p) > 0 /\ p[1] = "/"

Join(base, rel) == IF IsAbsolute(rel) THEN rel ELSE base \o <<"/">> \o rel

\* Path::strip_prefix: component-wise, [ok, v]
StripPrefix(p, base) ==
    IF p = base THEN [ok |-> TRUE, v |-> <<>>]
    ELSE IF StartsWith(p, base \o <<"/">>)
         THEN [ok |-> TRUE, v |-> SubSeq(p, Len(base) + 2, Len(p))]
         ELSE [ok |-> FALSE, v |-> <<>>]

\* repo_root.join(path).canonicalize(), given relative to the repository
\* root: "." and a leading "./" are resolved away
Canonicalize(arg) ==
    IF arg = <<".">> THEN <<>>
    ELSE IF StartsWith(arg, <<".", "/">>) THEN SubSeq(arg, 3, Len(arg))
    ELSE arg

\* WalkDir::new(add_path): the files below a directory
InDir(p, dir) == dir = <<>> \/ StartsWith(p, dir \o <<"/">>)

\* BLAKE3 of a content, and the byte size of a content
Hash(c) == <<"b3", c>>
Size(c) == 5 + (c \div 3)
Fingerprints == {Hash(c) : c \in Contents}

\* glob::Pattern "<prefix>*": '*' matches any sequence, '/' included
GlobMatches(prefix, path) == StartsWith(path, prefix)
Patterns == {<<>>, <<"a", "/">>}

\* ---------------------------------------------------------------- the state
VARIABLES
    tree,        \* working tree: path -> [c: content, 0 = no file; m: mtime]
    unreadable,  \* paths whose file cannot be read
    storeFull,   \* TRUE: creating a file in the object store fails
    files,       \* the files table: a set of FileRecords
    history,     \* the history table: a sequence of HistoryRecords
    objects,     \* the object store: fingerprint -> content, 0 = no object
    now,         \* the clock, in seconds
    last,        \* the last command: what ran and what it reported
    rt,          \* add / rm tracked / add round trip on a fresh repository
    ncmd,        \* commands run
    nenv,        \* changes made to the environment
    writers,     \* processes inside copy_to_object_store: where each one is
    repo         \* the control directory .ddrive: what it holds

vars == <<tree, unreadable, storeFull, files, history, objects, now, last, rt,
          ncmd, nenv, writers, repo>>

NoFile == [c |-> 0, m |-> 0]

\* what a command reported: its name, argument, success, action_id, primary
\* count and the other counters of its result
NoCmd == [cmd |-> "none", arg |-> <<>>, ok |-> TRUE, aid |-> 0, n |-> 0,
          res |-> <<>>]

Report(cmd, arg, ok, n, res) ==
    [cmd |-> cmd, arg |-> arg, ok |-> ok, aid |-> now, n |-> n, res |-> res]

\* ------------------------------------------------------------ sequence help
RECURSIVE SeqOfPathsFrom(_, _)
SeqOfPathsFrom(S, i) ==
    IF i > Len(PathOrder) THEN <<>>
    ELSE (IF PathOrder[i] \in S THEN <<PathOrder[i]>> ELSE <<>>)
         \o SeqOfPathsFrom(S, i + 1)

SeqOfPaths(S) == SeqOfPathsFrom(S, 1)

Range(s) == {s[i] : i \in 1..Len(s)}

\* the one element of a singleton set: Only({F(x) : x \in {e}}) is F(e) with
\* e evaluated once
Only(S) == CHOOSE x \in S : TRUE

RecordAt(fs, path) == CHOOSE r \in fs : r.path = path
Tracked(fs, path) == \E r \in fs : r.path = path

\* get_all_files: SELECT ... FROM files ORDER BY path
GetAllFiles(fs) ==
    LET ps == SeqOfPaths({r.path : r \in fs})
    IN [i \in 1..Len(ps) |-> RecordAt(fs, ps[i])]

MaxId(fs) == IF fs = {} THEN 0 ELSE CHOOSE i \in {r.id : r \in fs} :
                                       \A r \in fs : r.id <= i

\* ----------------------------------------------------------------- checksum
\* ChecksumCalculator::calculate_checksum of the file at a relative path
CalculateChecksum(p) ==
    IF p \in Paths /\ tree[p].c # 0 /\ p \notin unreadable
    THEN [ok |-> TRUE, v |-> Hash(tree[p].c)]
    ELSE [ok |-> FALSE, v |-> NoSum]

\* ----------------------------------------------------------------- database
\* the ActionType of a history row
ActionAdd == "Add"
ActionDelete == "Delete"
ActionUpdate == "Update"
ActionRename == "Rename"

HistoryRow(aid, type, path, b3sum, size, old) ==
    [action_id |-> aid, action_type |-> type, path |-> path, b3sum |-> b3sum,
     size |-> size, old_path |-> old]

FileRow(id, path, b3sum, size, created, updated, checked) ==
    [id |-> id, path |-> path, b3sum |-> b3sum, size |-> size,
     created_at |-> created, updated_at |-> updated, last_checked |-> checked]

DbOk(fs, hs) == [ok |-> TRUE, files |-> fs, history |-> hs]
DbErr(fs, hs) == [ok |-> FALSE, files |-> fs, history |-> hs]

\* Database::convert_to_relative_path
ConvertToRelativePath(fp) ==
    LET abs == IF IsAbsolute(fp) THEN fp ELSE Join(Cwd, fp)
    IN StripPrefix(abs, RepoRoot)

\* a files table without the uniqueness constraint on path
AnyPathIsFree(fs, path) == TRUE

\* the schema of the files table: path is unique
PathIsFree(fs, path) == ~ \E r \in fs : r.path = path

\* INSERT INTO files (path, b3sum, size, created_at, updated_at)
InsertFilesRow(fs, path, b3sum, size) ==
    fs \cup {FileRow(MaxId(fs) + 1, path, b3sum, size, now, now, Null)}

\* Database::insert_file_record
InsertFileRecord(fs, hs, path, b3sum, size) ==
    LET rel == ConvertToRelativePath(path)
    IN IF ~rel.ok \/ ~PathIsFree(fs, rel.v) THEN DbErr(fs, hs)
       ELSE DbOk(InsertFilesRow(fs, rel.v, b3sum, size), hs)

RECURSIVE InsertLoop(_, _, _, _, _)
InsertLoop(fs, hs, aid, recs, i) ==
    IF i > Len(recs) THEN DbOk(fs, hs)
    ELSE LET rel == ConvertToRelativePath(recs[i][1])
         IN IF ~rel.ok THEN DbErr(fs, hs)
            ELSE IF ~PathIsFree(fs, rel.v) THEN DbErr(fs, hs)
            ELSE InsertLoop(
                   InsertFilesRow(fs, rel.v, recs[i][2], recs[i][3]),
                   Append(hs, HistoryRow(aid, ActionAdd, rel.v, recs[i][2],
                                         recs[i][3], NoPath)),
                   aid, recs, i + 1)

\* a batch insert outside a transaction: what was written before a failure
\* stays
InsertWithoutRollback(fs, hs, aid, recs) == InsertLoop(fs, hs, aid, recs, 1)

\* Database::batch_insert_file_records: one transaction, recs a sequence of
\* <<file_path, b3sum, file_size>>
BatchInsertFileRecords(fs, hs, aid, recs) ==
    LET r == InsertLoop(fs, hs, aid, recs, 1)
    IN IF r.ok THEN r ELSE DbErr(fs, hs)

\* a batch delete that removes the Files rows and writes no history
DeleteRowsOnly(fs, hs, aid, recs) ==
    DbOk({r \in fs : \A i \in 1..Len(recs) :
                       ConvertToRelativePath(recs[i][1]).v # r.path}, hs)

RECURSIVE DeleteLoop(_, _, _, _, _)
DeleteLoop(fs, hs, aid, recs, i) ==
    IF i > Len(recs) THEN DbOk(fs, hs)
    ELSE LET rel == ConvertToRelativePath(recs[i][1])
         IN IF ~rel.ok THEN DbErr(fs, hs)
            ELSE DeleteLoop(
                   {r \in fs : r.path # rel.v},
                   Append(hs, HistoryRow(aid, ActionDelete, rel.v, recs[i][2],
                                         recs[i][3], NoPath)),
                   aid, recs, i + 1)

\* Database::batch_delete_file_records
BatchDeleteFileRecords(fs, hs, aid, recs) ==
    LET r == DeleteLoop(fs, hs, aid, recs, 1)
    IN IF r.ok THEN r ELSE DbErr(fs, hs)

\* an UPDATE that leaves last_checked as it was
UpdateKeepingLastChecked(fs, path, b3sum, size) ==
    {IF r.path = path
     THEN [r EXCEPT !.b3sum = b3sum, !.size = size, !.updated_at = now]
     ELSE r : r \in fs}

\* UPDATE files SET b3sum, size, updated_at = CURRENT_TIMESTAMP,
\* last_checked = NULL WHERE path = ?
UpdateFilesRow(fs, path, b3sum, size) ==
    {IF r.path = path
     THEN [r EXCEPT !.b3sum = b3sum, !.size = size, !.updated_at = now,
                    !.last_checked = Null]
     ELSE r : r \in fs}

RECURSIVE UpdateLoop(_, _, _, _, _)
UpdateLoop(fs, hs, aid, recs, i) ==
    IF i > Len(recs) THEN DbOk(fs, hs)
    ELSE LET rel == ConvertToRelativePath(recs[i][1])
         IN IF ~rel.ok THEN DbErr(fs, hs)
            ELSE UpdateLoop(
                   UpdateFilesRow(fs, rel.v, recs[i][2], recs[i][3]),
                   Append(hs, HistoryRow(aid, ActionUpdate, rel.v, recs[i][2],
                                         recs[i][3], NoPath)),
                   aid, recs, i + 1)

\* Database::batch_update_file_records
BatchUpdateFileRecords(fs, hs, aid, recs) ==
    LET r == UpdateLoop(fs, hs, aid, recs, 1)
    IN IF r.ok THEN r ELSE DbErr(fs, hs)

\* Database::rename_file_record: UPDATE files SET path = new,
\* updated_at = CURRENT_TIMESTAMP WHERE path = old
RenameFileRecord(fs, hs, old, new) ==
    LET o == ConvertToRelativePath(old)
        n == ConvertToRelativePath(new)
    IN IF ~o.ok \/ ~n.ok THEN DbErr(fs, hs)
       ELSE IF ~Tracked(fs, o.v) THEN DbOk(fs, hs)
       ELSE IF o.v # n.v /\ ~PathIsFree(fs, n.v) THEN DbErr(fs, hs)
       ELSE DbOk({IF r.path = o.v
                  THEN [r EXCEPT !.path = n.v, !.updated_at = now]
                  ELSE r : r \in fs}, hs)

RECURSIVE RenameLoop(_, _, _, _, _)
RenameLoop(fs, hs, aid, pairs, i) ==
    IF i > Len(pairs) THEN DbOk(fs, hs)
    ELSE LET old == pairs[i][1]
             new == pairs[i][2]
         IN IF ~Tracked(fs, old) THEN RenameLoop(fs, hs, aid, pairs, i + 1)
            ELSE IF old # new /\ ~PathIsFree(fs, new) THEN DbErr(fs, hs)
            ELSE LET r == RecordAt(fs, old)
                 IN RenameLoop(
                      (fs \ {r}) \cup {[r EXCEPT !.path = new]},
                      Append(hs, HistoryRow(aid, ActionRename, new, r.b3sum,
                                            r.size, old)),
                      aid, pairs, i + 1)

\* Database::batch_rename_files: pairs a sequence of <<old_path, new_path>>
BatchRenameFiles(fs, hs, aid, pairs) ==
    LET r == RenameLoop(fs, hs, aid, pairs, 1)
    IN IF r.ok THEN r ELSE DbErr(fs, hs)

\* an update_last_checked that sets updated_at as well
TouchUpdatedAt(fs, hs, path) ==
    DbOk({IF r.path = ConvertToRelativePath(path).v
          THEN [r EXCEPT !.last_checked = now, !.updated_at = now]
          ELSE r : r \in fs}, hs)

\* Database::update_last_checked
UpdateLastChecked(fs, hs, path) ==
    LET rel == ConvertToRelativePath(path)
    IN IF ~rel.ok THEN DbErr(fs, hs)
       ELSE DbOk({IF r.path = rel.v THEN [r EXCEPT !.last_checked = now]
                  ELSE r : r \in fs}, hs)

\* Database::delete_file_record
DeleteFileRecord(fs, hs, path) ==
    LET rel == ConvertToRelativePath(path)
    IN IF ~rel.ok THEN DbErr(fs, hs)
       ELSE DbOk({r \in fs : r.path # rel.v}, hs)

\* a cleanup that deletes the old rows of every type
CleanupEveryOldRow(hs, type, cutoff) ==
    SelectSeq(hs, LAMBDA h : ~(h.action_id < cutoff))

\* Database::cleanup_old_history: DELETE FROM history WHERE action_type = ?
\* AND action_id < ?
CleanupOldHistory(hs, type, cutoff) ==
    SelectSeq(hs, LAMBDA h : ~(h.action_type = type /\ h.action_id < cutoff))

\* the fingerprints the files and history tables reference
ReferencedChecksums(fs, hs) ==
    {r.b3sum : r \in fs} \cup {hs[i].b3sum : i \in 1..Len(hs)}

\* an orphan search that reads the files table only
OrphansIgnoringHistory(fs, hs, objs) ==
    {fp \in DOMAIN objs : objs[fp] # 0 /\ fp \notin {r.b3sum : r \in fs}}

\* an orphan search that finds nothing
NoOrphans(fs, hs, objs) == {}

\* an orphan search that takes only Files rows and Delete rows as references
OrphansIgnoringAddRows(fs, hs, objs) ==
    {fp \in DOMAIN objs :
        /\ objs[fp] # 0
        /\ fp \notin {r.b3sum : r \in fs}
        /\ fp \notin {hs[i].b3sum : i \in {j \in 1..Len(hs) :
                                            hs[j].action_type = "Delete"}}}

\* Database::find_orphaned_objects with scan_objects_directory
FindOrphanedObjects(fs, hs, objs) ==
    {fp \in DOMAIN objs : objs[fp] # 0 /\ fp \notin ReferencedChecksums(fs, hs)}

\* Database::store_object: a hard link to the source file, of content c, unless
\* the object exists
StoreObject(objs, fp, c) == IF objs[fp] # 0 THEN objs ELSE [objs EXCEPT ![fp] = c]

\* a delete_object that leaves the file in place
KeepObject(objs, fp) == objs

\* Database::delete_object
DeleteObject(objs, fp) == [objs EXCEPT ![fp] = 0]

\* Database::cleanup_orphaned_objects: [objects, n]
CleanupOrphanedObjects(fs, hs, objs) ==
    LET orphaned == FindOrphanedObjects(fs, hs, objs)
    IN [objects |-> [fp \in DOMAIN objs |->
                        IF fp \in orphaned THEN DeleteObject(objs, fp)[fp]
                        ELSE objs[fp]],
        n |-> Cardinality(orphaned)]

\* ------------------------------------------------------------------ scanner
FileInfo(path, size, modified, b3sum) ==
    [path |-> path, size |-> size, modified |-> modified, b3sum |-> b3sum]

\* FileScanner: the regular files below dir, with their metadata
ScanFiles(dir) ==
    LET ps == SeqOfPaths({p \in Paths : tree[p].c # 0 /\ InDir(p, dir)})
    IN [i \in 1..Len(ps) |->
          FileInfo(ps[i], Size(tree[ps[i]].c), tree[ps[i]].m, NoSum)]

\* impl From<&FileRecord> for FileInfo
FileInfoOfRecord(r) == FileInfo(r.path, r.size, r.updated_at, r.b3sum)

\* --------------------------------------------------------- change detection
SeqPaths(s) == {s[i].path : i \in 1..Len(s)}

\* tracked_lookup.get(path)
Lookup(tracked, path) ==
    tracked[CHOOSE i \in 1..Len(tracked) : tracked[i].path = path]

\* a detector that never trusts size and time
MetadataNeverTrusted(file, record) == FALSE

\* "Skip if size and time haven't changed"
MetadataUnchanged(file, record) ==
    file.size = record.size /\ file.modified <= record.updated_at

\* "Reuse existing checksum if available, otherwise calculate"
ChecksumOf(file) ==
    IF file.b3sum # NoSum THEN [ok |-> TRUE, v |-> file.b3sum]
    ELSE CalculateChecksum(file.path)

\* a change test that skips both comparisons
AlwaysChanged(file, record) == TRUE

\* a scanned file with a catalog match that goes to changed_files
IsChanged(file, record) ==
    /\ ~MetadataUnchanged(file, record)
    /\ ChecksumOf(file).v # record.b3sum

\* FileProcessor::ensure_checksums_for_files
EnsureChecksumsForFiles(fs) ==
    [ok |-> \A i \in 1..Len(fs) : ChecksumOf(fs[i]).ok,
     v |-> [i \in 1..Len(fs) |-> [fs[i] EXCEPT !.b3sum = ChecksumOf(fs[i]).v]]]

FirstIndex(s, Test(_)) == CHOOSE i \in 1..Len(s) :
                             Test(s[i]) /\ \A j \in 1..(i - 1) : ~Test(s[j])

RECURSIVE RenamePairs(_, _, _)
RenamePairs(deleted, news, i) ==
    IF i > Len(deleted) THEN <<>>
    ELSE LET d == deleted[i]
             SameKey(f) == f.b3sum = d.b3sum /\ f.size = d.size
             first == \A j \in 1..(i - 1) : deleted[j].b3sum # d.b3sum
             hit == \E k \in 1..Len(news) : SameKey(news[k])
         IN (IF first /\ hit
             THEN << <<d, news[FirstIndex(news, SameKey)]>> >>
             ELSE <<>>)
            \o RenamePairs(deleted, news, i + 1)

\* a pairing by size alone: the first deleted file with the first new file of
\* its size
PairBySize(deleted, news) ==
    IF deleted # <<>> /\ \E k \in 1..Len(news) : news[k].size = deleted[1].size
    THEN << <<deleted[1],
              news[CHOOSE k \in 1..Len(news) :
                      /\ news[k].size = deleted[1].size
                      /\ \A j \in 1..(k - 1) :
                            news[j].size # deleted[1].size]>> >>
    ELSE <<>>

\* Database::find_potential_renames: per common fingerprint with matching
\* size, the first deleted file with the first new file
FindPotentialRenames(deleted, news) == RenamePairs(deleted, news, 1)

\* find_potential_renames_by_metadata: per (size, creation time) of a deleted
\* file, the first deleted file with the first new file of that key; the
\* creation time of a file is taken to be the time it was last written
MetadataKey(f) == <<f.size, f.modified>>

FirstOfItsKey(fs, i) ==
    \A j \in 1..(i - 1) : MetadataKey(fs[j]) # MetadataKey(fs[i])

RenamesByMetadata(deleted, news) ==
    {<<deleted[x[1]].path, news[x[2]].path>> :
        x \in {x \in (1..Len(deleted)) \X (1..Len(news)) :
                 /\ MetadataKey(deleted[x[1]]) = MetadataKey(news[x[2]])
                 /\ FirstOfItsKey(deleted, x[1])
                 /\ FirstOfItsKey(news, x[2])}}

\* a pairing that gives every deleted file of a key the first new file of it
PairEveryDeleted(deleted, news, i) ==
    LET SameKey(j, f) == MetadataKey(f) = MetadataKey(deleted[j])
        hits == SelectSeq([j \in 1..Len(deleted) |-> j],
                          LAMBDA j : \E k \in 1..Len(news) :
                                        SameKey(j, news[k]))
    IN [x \in 1..Len(hits) |->
          <<deleted[hits[x]],
            news[CHOOSE k \in 1..Len(news) :
                    /\ SameKey(hits[x], news[k])
                    /\ \A j \in 1..(k - 1) : ~SameKey(hits[x], news[j])]>>]

RECURSIVE RenamePairsByMetadata(_, _, _)
RenamePairsByMetadata(deleted, news, i) ==
    IF i > Len(deleted) THEN <<>>
    ELSE LET d == deleted[i]
             SameKey(f) == MetadataKey(f) = MetadataKey(d)
             hit == \E k \in 1..Len(news) : SameKey(news[k])
         IN (IF FirstOfItsKey(deleted, i) /\ hit
             THEN << <<d, [news[FirstIndex(news, SameKey)]
                             EXCEPT !.b3sum = NoSum]>> >>
             ELSE <<>>)
            \o RenamePairsByMetadata(deleted, news, i + 1)

\* FileProcessor::detect_changes with use_checksums:
\* [ok, new, changed, deleted, renames]
DetectChanges(scanned, tracked) ==
    LET tpaths == SeqPaths(tracked)
        spaths == SeqPaths(scanned)
        Matched(f) == f.path \in tpaths
        Needs(f) == Matched(f) /\ ~MetadataUnchanged(f, Lookup(tracked, f.path))
        candDel == LET ts == SelectSeq(tracked, LAMBDA r : r.path \notin spaths)
                   IN [i \in 1..Len(ts) |-> FileInfoOfRecord(ts[i])]
        candNew == SelectSeq(scanned, LAMBDA f : ~Matched(f))
        chg == SelectSeq(scanned,
                 LAMBDA f : Matched(f) /\ IsChanged(f, Lookup(tracked, f.path)))
        changed == [i \in 1..Len(chg) |->
                      [chg[i] EXCEPT !.b3sum = ChecksumOf(chg[i]).v]]
        sums == EnsureChecksumsForFiles(candNew)
        renames == FindPotentialRenames(candDel, sums.v)
        renNew == {renames[i][2].path : i \in 1..Len(renames)}
        renOld == {renames[i][1].path : i \in 1..Len(renames)}
    IN IF \E i \in 1..Len(scanned) :
             Needs(scanned[i]) /\ ~ChecksumOf(scanned[i]).ok
       THEN [ok |-> FALSE, new |-> <<>>, changed |-> <<>>, deleted |-> <<>>,
             renames |-> <<>>]
       ELSE IF ~sums.ok
       THEN [ok |-> FALSE, new |-> <<>>, changed |-> <<>>, deleted |-> <<>>,
             renames |-> <<>>]
       ELSE [ok |-> TRUE,
             new |-> SelectSeq(candNew, LAMBDA f : f.path \notin renNew),
             changed |-> changed,
             deleted |-> SelectSeq(candDel, LAMBDA f : f.path \notin renOld),
             renames |-> renames]

\* FileProcessor::detect_changes without checksums: a matched file whose size
\* or time differs is changed, renames are paired by metadata
DetectChangesLight(scanned, tracked) ==
    LET tpaths == SeqPaths(tracked)
        spaths == SeqPaths(scanned)
        Matched(f) == f.path \in tpaths
        candDel == LET ts == SelectSeq(tracked, LAMBDA r : r.path \notin spaths)
                   IN [i \in 1..Len(ts) |-> FileInfoOfRecord(ts[i])]
        candNew == SelectSeq(scanned, LAMBDA f : ~Matched(f))
        chg == SelectSeq(scanned,
                 LAMBDA f : /\ Matched(f)
                            /\ ~MetadataUnchanged(f, Lookup(tracked, f.path)))
        renames == RenamePairsByMetadata(candDel, candNew, 1)
        renNew == {renames[i][2].path : i \in 1..Len(renames)}
        renOld == {renames[i][1].path : i \in 1..Len(renames)}
    IN [ok |-> TRUE,
        new |-> SelectSeq(candNew, LAMBDA f : f.path \notin renNew),
        changed |-> [i \in 1..Len(chg) |-> [chg[i] EXCEPT !.b3sum = NoSum]],
        deleted |-> SelectSeq(candDel, LAMBDA f : f.path \notin renOld),
        renames |-> renames]

\* ------------------------------------------------------------- object store
\* reflink_or_copy / cow_copy of a working file to objects/<checksum>
CowCopy(objs, path, checksum) ==
    IF storeFull \/ tree[path].c = 0 \/ path \in unreadable
    THEN [ok |-> FALSE, objects |-> objs]
    ELSE [ok |-> TRUE, objects |-> [objs EXCEPT ![checksum] = tree[path].c]]

\* an ingest that copies whether or not the object exists
CopyAlways(objs, path, checksum) == CowCopy(objs, path, checksum)

\* cli AddCommand::copy_to_object_store
CopyToObjectStore(objs, path, checksum) ==
    IF objs[checksum] # 0 THEN [ok |-> TRUE, objects |-> objs]
    ELSE CowCopy(objs, path, checksum)

\* ------------------------------------------------------ add (src/cli/add.rs)
AddState(ok, fs, hs, objs) ==
    [ok |-> ok, files |-> fs, history |-> hs, objects |-> objs]

\* the <<file_path, b3sum, file_size>> a FileInfo is stored as
RecordTuple(path, b3sum, size) == <<path, b3sum, size>>

RECURSIVE CopyNewLoop(_, _, _, _)
CopyNewLoop(objs, news, i, acc) ==
    IF i > Len(news) THEN [objects |-> objs, recs |-> acc]
    ELSE LET f == news[i]
             sum == CalculateChecksum(f.path)
             cp == CopyToObjectStore(objs, f.path, sum.v)
         IN IF ~sum.ok THEN CopyNewLoop(objs, news, i + 1, acc)
            ELSE IF ~cp.ok THEN CopyNewLoop(objs, news, i + 1, acc)
            ELSE CopyNewLoop(cp.objects, news, i + 1,
                             Append(acc, RecordTuple(f.path, sum.v, f.size)))

\* cli AddCommand::process_new_files
ProcessNewFiles(fs, hs, objs, aid, news) ==
    LET l == CopyNewLoop(objs, news, 1, <<>>)
        db == BatchInsertFileRecords(fs, hs, aid, l.recs)
    IN IF l.recs = <<>> THEN AddState(TRUE, fs, hs, l.objects)
       ELSE AddState(db.ok, db.files, db.history, l.objects)

RECURSIVE ChangedLoop(_, _, _, _, _, _)
ChangedLoop(fs, hs, objs, aid, changed, i) ==
    IF i > Len(changed) THEN AddState(TRUE, fs, hs, objs)
    ELSE LET f == changed[i]
             cp == CopyToObjectStore(objs, f.path, f.b3sum)
             db == BatchUpdateFileRecords(fs, hs, aid,
                       <<RecordTuple(f.path, f.b3sum, f.size)>>)
         IN IF ~cp.ok THEN ChangedLoop(fs, hs, objs, aid, changed, i + 1)
            ELSE IF ~db.ok THEN AddState(FALSE, fs, hs, cp.objects)
            ELSE ChangedLoop(db.files, db.history, cp.objects, aid, changed,
                             i + 1)

\* cli AddCommand::process_changed_files
ProcessChangedFiles(fs, hs, objs, aid, changed) ==
    ChangedLoop(fs, hs, objs, aid, changed, 1)

\* a rename step that records nothing
SkipRenames(fs, hs, aid, renames) == DbOk(fs, hs)

\* cli AddCommand::process_renames
ProcessRenames(fs, hs, aid, renames) ==
    BatchRenameFiles(fs, hs, aid,
        [i \in 1..Len(renames) |-> <<renames[i][1].path, renames[i][2].path>>])

\* the tracked files add compares the scan with
TrackedInScope(fs, arg) ==
    IF Canonicalize(arg) = <<>> THEN GetAllFiles(fs)
    ELSE SelectSeq(GetAllFiles(fs), LAMBDA r : StartsWith(r.path, arg))

AddAfterRenames(dc, aid, s1) ==
    IF ~s1.ok THEN AddState(FALSE, files, history, objects)
    ELSE Only({IF ~s2.ok THEN s2
               ELSE IF dc.changed = <<>> THEN s2
               ELSE ProcessChangedFiles(s2.files, s2.history, s2.objects, aid,
                                        dc.changed) :
               s2 \in {IF dc.new = <<>>
                       THEN AddState(TRUE, s1.files, s1.history, objects)
                       ELSE ProcessNewFiles(s1.files, s1.history, objects, aid,
                                            dc.new)}})

AddAfterDetect(dc, aid) ==
    IF ~dc.ok THEN AddState(FALSE, files, history, objects)
    ELSE Only({AddAfterRenames(dc, aid, s1) :
               s1 \in {IF dc.renames = <<>> THEN DbOk(files, history)
                       ELSE ProcessRenames(files, history, aid, dc.renames)}})

\* cli AddCommand::execute
AddExecute(arg) ==
    Only({IF scanned = <<>> THEN AddState(TRUE, files, history, objects)
          ELSE Only({AddAfterDetect(dc, now) :
                     dc \in {DetectChanges(scanned, TrackedInScope(files, arg))}}) :
          scanned \in {ScanFiles(Canonicalize(arg))}})

\* ------------------------------------------------------- rm (src/cli/rm.rs)
\* RmCommand::tracked
RmTrackedExecute(pattern) ==
    LET all == GetAllFiles(files)
        rm == SelectSeq(all, LAMBDA r : GlobMatches(pattern, r.path))
        db == BatchDeleteFileRecords(files, history, now,
                 [i \in 1..Len(rm) |-> RecordTuple(rm[i].path, rm[i].b3sum,
                                                   rm[i].size)])
    IN IF rm = <<>> THEN [ok |-> TRUE, files |-> files, history |-> history,
                          n |-> 0]
       ELSE [ok |-> db.ok, files |-> db.files, history |-> db.history,
             n |-> IF db.ok THEN Len(rm) ELSE 0]

\* ----------------------------------------------- verify (src/cli/verify.rs)
\* a selection that takes the unchecked records only
NeverCheckedOnly(fs, cutoff) ==
    SelectSeq(GetAllFiles(fs), LAMBDA r : r.last_checked = Null)

\* Database::get_files_not_checked_since
GetFilesNotCheckedSince(fs, cutoff) ==
    SelectSeq(GetAllFiles(fs),
              LAMBDA r : r.last_checked = Null \/ r.last_checked < cutoff)

\* VerifyCommand::get_files_for_verification, without a path filter
GetFilesForVerification(fs, force) ==
    IF force THEN GetAllFiles(fs)
    ELSE GetFilesNotCheckedSince(fs, now - IntervalSecs)

Abs(x) == IF x < 0 THEN -x ELSE x

\* VerifyCommand::check_metadata_changes
CheckMetadataChanges(path, record) ==
    \/ Size(tree[path].c) # record.size
    \/ Abs(tree[path].m - record.updated_at) > 1

\* VerifyCommand::verify_file: "err", "pass" or "fail"
VerifyFile(record, force) ==
    IF tree[record.path].c = 0 THEN "err"
    ELSE IF ~force /\ ~CheckMetadataChanges(record.path, record) THEN "pass"
    ELSE IF ~CalculateChecksum(record.path).ok THEN "err"
    ELSE IF CalculateChecksum(record.path).v = record.b3sum THEN "pass"
    ELSE "fail"

\* the IntegrityFailure pushed for a record whose fingerprints differ
IntegrityFailure(record) ==
    [file_path |-> record.path, expected_checksum |-> record.b3sum,
     actual_checksum |-> CalculateChecksum(record.path).v]

\* a loop that stamps every candidate, whatever its verdict
TouchAll(fs, todo, force, i) ==
    {IF r \in Range(todo) THEN [r EXCEPT !.last_checked = now] ELSE r :
     r \in fs}

\* a loop that stops at the first candidate that does not pass
RECURSIVE StopAtFailure(_, _, _, _)
StopAtFailure(fs, todo, force, i) ==
    IF i > Len(todo) THEN fs
    ELSE IF VerifyFile(todo[i], force) # "pass" THEN fs
    ELSE StopAtFailure(
           UpdateLastChecked(fs, history, Join(RepoRoot, todo[i].path)).files,
           todo, force, i + 1)

RECURSIVE VerifyLoop(_, _, _, _)
VerifyLoop(fs, todo, force, i) ==
    IF i > Len(todo) THEN fs
    ELSE IF VerifyFile(todo[i], force) = "pass"
         THEN VerifyLoop(
                UpdateLastChecked(fs, history, Join(RepoRoot, todo[i].path)).files,
                todo, force, i + 1)
         ELSE VerifyLoop(fs, todo, force, i + 1)

\* VerifyCommand::execute on the candidates todo: the catalog afterwards and
\* the VerifyResult
VerifyCandidates(todo, force) ==
    LET Count(v) == Cardinality({i \in 1..Len(todo) :
                                    VerifyFile(todo[i], force) = v})
    IN [files |-> VerifyLoop(files, todo, force, 1),
        checked |-> Count("pass") + Count("fail"),
        passed |-> Count("pass"),
        failed |-> Count("fail") + Count("err"),
        failures |-> Count("fail"),
        list |-> {IntegrityFailure(todo[i]) :
                     i \in {i \in 1..Len(todo) :
                               VerifyFile(todo[i], force) = "fail"}},
        skipped |-> 0,
        candidates |-> todo]

\* VerifyCommand::execute without a path filter
VerifyExecute(force) ==
    VerifyCandidates(GetFilesForVerification(files, force), force)

\* files.retain(|file| filter.matches(&file.path))
RetainMatching(todo, filter) ==
    SelectSeq(todo, LAMBDA r : GlobMatches(filter, r.path))

\* VerifyCommand::execute with a path filter
VerifyExecuteFiltered(filter, force) ==
    VerifyCandidates(RetainMatching(GetFilesForVerification(files, force),
                                    filter), force)

\* ------------------------------------------------- dedup (src/cli/dedup.rs)
\* a grouping that keeps the groups of one file
AllChecksums(fs) == {r.b3sum : r \in fs}

\* Database::find_duplicates with DedupCommand::group_duplicates: the
\* fingerprints more than one FileRecord carries
DuplicateChecksums(fs) ==
    {h \in {r.b3sum : r \in fs} : Cardinality({r \in fs : r.b3sum = h}) > 1}

\* the paths of a duplicate group, ORDER BY path
GroupFiles(fs, h) == SeqOfPaths({r.path : r \in {x \in fs : x.b3sum = h}})

\* DedupCommand::group_duplicates: the DuplicateGroups
GroupDuplicates(fs) ==
    {[checksum |-> h, files |-> GroupFiles(fs, h),
      file_size |-> RecordAt(fs, GroupFiles(fs, h)[1]).size] :
     h \in DuplicateChecksums(fs)}

\* std::fs::remove_file(other) then reflink_or_copy(keep, other)
RECURSIVE ReplaceLoop(_, _, _, _)
ReplaceLoop(tr, keep, group, i) ==
    IF i > Len(group) THEN tr
    ELSE LET other == group[i]
             removed == [tr EXCEPT ![other] = NoFile]
         IN IF tr[other].c = 0 THEN ReplaceLoop(tr, keep, group, i + 1)
            ELSE IF tr[keep].c = 0 \/ keep \in unreadable
            THEN ReplaceLoop(removed, keep, group, i + 1)
            ELSE ReplaceLoop([tr EXCEPT ![other] = [c |-> tr[keep].c,
                                                     m |-> now]],
                             keep, group, i + 1)

\* DedupCommand::process_duplicates, one group: [ok, tree, objects]
ProcessGroup(tr, objs, fs, h) ==
    LET group == GroupFiles(fs, h)
        keep == group[1]
        backup == IF objs[h] # 0 THEN [ok |-> TRUE, objects |-> objs]
                  ELSE IF storeFull \/ tr[keep].c = 0 \/ keep \in unreadable
                  THEN [ok |-> FALSE, objects |-> objs]
                  ELSE [ok |-> TRUE,
                        objects |-> [objs EXCEPT ![h] = tr[keep].c]]
    IN IF ~backup.ok THEN [ok |-> FALSE, tree |-> tr, objects |-> objs]
       ELSE [ok |-> TRUE, tree |-> ReplaceLoop(tr, keep, group, 2),
             objects |-> backup.objects]

RECURSIVE ProcessDuplicates(_, _, _, _)
ProcessDuplicates(tr, objs, fs, todo) ==
    IF todo = {} THEN [ok |-> TRUE, tree |-> tr, objects |-> objs]
    ELSE LET h == CHOOSE x \in todo : \A y \in todo : x[2] <= y[2]
             g == ProcessGroup(tr, objs, fs, h)
         IN IF ~g.ok THEN g
            ELSE ProcessDuplicates(g.tree, g.objects, fs, todo \ {h})

\* DedupCommand::execute, without a path filter: [ok, tree, objects, n]
DedupExecute(tr, objs, fs) ==
    LET r == ProcessDuplicates(tr, objs, fs, DuplicateChecksums(fs))
    IN [ok |-> r.ok, tree |-> r.tree, objects |-> r.objects,
        n |-> Cardinality(DuplicateChecksums(fs)),
        groups |-> GroupDuplicates(fs)]

\* ------------------------------------------------- prune (src/cli/prune.rs)
\* PruneConfig::cutoff_date().timestamp()
PruneCutoff == now - RetentionSecs

\* PruneCommand::execute
PruneExecute ==
    LET hs == CleanupOldHistory(history, ActionDelete, PruneCutoff)
        sweep == CleanupOrphanedObjects(files, hs, objects)
        dd == DedupExecute(tree, sweep.objects, files)
    IN [ok |-> dd.ok, history |-> hs, tree |-> dd.tree, objects |-> dd.objects,
        pruned |-> Len(history) - Len(hs), swept |-> sweep.n, groups |-> dd.n]

\* ---------------------------------------------- legacy add (src/add.rs)
\* impl From<&FileRecord> for FileInfo of src/scanner.rs: no fingerprint
LegacyFileInfoOfRecord(r) == FileInfo(r.path, r.size, r.updated_at, NoSum)

\* FileProcessor::calculate_checksums_parallel: the files whose checksum is
\* known or can be calculated, as <<path, checksum, size>>
CalculateChecksumsParallel(fs) ==
    LET withSum == SelectSeq(fs, LAMBDA f : f.b3sum # NoSum)
        needing == SelectSeq(fs, LAMBDA f : f.b3sum = NoSum)
        calculated == SelectSeq(needing, LAMBDA f : CalculateChecksum(f.path).ok)
    IN [i \in 1..Len(withSum) |->
           RecordTuple(withSum[i].path, withSum[i].b3sum, withSum[i].size)]
       \o [i \in 1..Len(calculated) |->
              RecordTuple(calculated[i].path,
                          CalculateChecksum(calculated[i].path).v,
                          calculated[i].size)]

\* legacy AddCommand::copy_to_object_store: a failed cow_copy is logged and
\* the function returns Ok(())
LegacyCopyToObjectStore(objs, path, checksum) ==
    IF objs[checksum] # 0 THEN [ok |-> TRUE, objects |-> objs]
    ELSE [ok |-> TRUE, objects |-> CowCopy(objs, path, checksum).objects]

Min(a, b) == IF a < b THEN a ELSE b

\* files.iter().zip(checksums): copy files[i] under checksums[i], then store
\* checksums[i]; insert selects batch_insert or batch_update
RECURSIVE LegacyZipLoop(_, _, _, _, _, _, _, _)
LegacyZipLoop(fs, hs, objs, aid, fl, sums, insert, i) ==
    IF i > Min(Len(fl), Len(sums)) THEN AddState(TRUE, fs, hs, objs)
    ELSE LET cp == LegacyCopyToObjectStore(objs, fl[i].path, sums[i][2])
             db == IF insert
                   THEN BatchInsertFileRecords(fs, hs, aid, <<sums[i]>>)
                   ELSE BatchUpdateFileRecords(fs, hs, aid, <<sums[i]>>)
         IN IF ~cp.ok
            THEN LegacyZipLoop(fs, hs, objs, aid, fl, sums, insert, i + 1)
            ELSE IF ~db.ok THEN AddState(FALSE, fs, hs, cp.objects)
            ELSE LegacyZipLoop(db.files, db.history, cp.objects, aid, fl, sums,
                               insert, i + 1)

\* legacy AddCommand::process_new_files
LegacyProcessNewFiles(fs, hs, objs, aid, news) ==
    LegacyZipLoop(fs, hs, objs, aid, news, CalculateChecksumsParallel(news),
                  TRUE, 1)

\* legacy AddCommand::process_changed_files
LegacyProcessChangedFiles(fs, hs, objs, aid, changed) ==
    LegacyZipLoop(fs, hs, objs, aid, changed,
                  CalculateChecksumsParallel(changed), FALSE, 1)

\* the detect_changes the legacy add calls: new, changed and deleted files,
\* without rename pairing
LegacyDetectChanges(scanned, tracked) ==
    LET tpaths == SeqPaths(tracked)
        spaths == SeqPaths(scanned)
        Matched(f) == f.path \in tpaths
        Needs(f) == Matched(f) /\ ~MetadataUnchanged(f, Lookup(tracked, f.path))
        del == SelectSeq(tracked, LAMBDA r : r.path \notin spaths)
    IN [ok |-> ~ \E i \in 1..Len(scanned) :
                    Needs(scanned[i]) /\ ~ChecksumOf(scanned[i]).ok,
        new |-> SelectSeq(scanned, LAMBDA f : ~Matched(f)),
        changed |-> SelectSeq(scanned,
                      LAMBDA f : Matched(f)
                                 /\ IsChanged(f, Lookup(tracked, f.path))),
        deleted |-> [i \in 1..Len(del) |-> LegacyFileInfoOfRecord(del[i])]]

LegacyAddAfterNew(dc, aid, s1) ==
    IF ~s1.ok THEN s1
    ELSE Only({IF ~s2.ok THEN s2
               ELSE Only({AddState(db.ok, db.files, db.history, s2.objects) :
                          db \in {BatchDeleteFileRecords(
                                     s2.files, s2.history, aid,
                                     CalculateChecksumsParallel(dc.deleted))}}) :
               s2 \in {IF dc.changed = <<>> THEN s1
                       ELSE LegacyProcessChangedFiles(s1.files, s1.history,
                                                      s1.objects, aid,
                                                      dc.changed)}})

LegacyAddAfterDetect(dc, aid) ==
    IF ~dc.ok THEN AddState(FALSE, files, history, objects)
    ELSE Only({LegacyAddAfterNew(dc, aid, s1) :
               s1 \in {IF dc.new = <<>>
                       THEN AddState(TRUE, files, history, objects)
                       ELSE LegacyProcessNewFiles(files, history, objects, aid,
                                                  dc.new)}})

\* legacy AddCommand::execute
LegacyAddExecute(arg) ==
    Only({IF scanned = <<>> THEN AddState(TRUE, files, history, objects)
          ELSE Only({LegacyAddAfterDetect(dc, now) :
                     dc \in {LegacyDetectChanges(scanned,
                                                 TrackedInScope(files, arg))}}) :
          scanned \in {ScanFiles(Canonicalize(arg))}})

\* ------------------------------------------------------------ the round trip
\* add . / rm "*" / add . on a fresh repository, the tree left alone meanwhile
RtStart == [phase |-> 0, f1 |-> {}, a1 |-> 0, a2 |-> 0, a3 |-> 0]
RtOff == [phase |-> 4, f1 |-> {}, a1 |-> 0, a2 |-> 0, a3 |-> 0]

RtOther == IF rt.phase = 0 THEN rt ELSE RtOff

RtAdd(arg, r) ==
    IF rt.phase = 0 /\ history = <<>> /\ files = {} /\ arg = ArgDot /\ r.ok
    THEN [phase |-> 1, f1 |-> r.files, a1 |-> now, a2 |-> 0, a3 |-> 0]
    ELSE IF rt.phase = 2 /\ arg = ArgDot /\ r.ok
    THEN [rt EXCEPT !.phase = 3, !.a3 = now]
    ELSE RtOther

RtRm(pattern, r) ==
    IF rt.phase = 1 /\ pattern = <<>> /\ r.ok
    THEN [rt EXCEPT !.phase = 2, !.a2 = now]
    ELSE RtOther

\* ------------------------------------------------- the control directory
\* .ddrive: whether the directory exists, its metadata.sqlite3 ("absent",
\* "empty": a file of length 0, "schema": the migrations have run; the rows
\* are files and history), its objects directory, its ignore file and its
\* config.toml ("absent", "default": as the program writes it, "edited")
ControlDir(dir, db, objectsDir, ignore, config) ==
    [dir |-> dir, db |-> db, objectsDir |-> objectsDir, ignore |-> ignore,
     config |-> config]

NoControlDir == ControlDir(FALSE, "absent", FALSE, "absent", "absent")

\* a repository that init made and a command has since opened
Initialised == ControlDir(TRUE, "schema", TRUE, "default", "default")

\* RepositoryFinder::validate_repository: .ddrive is a directory, the database
\* is a file, and the file is not empty
ValidateRepository(r) ==
    IF ~r.dir THEN FALSE
    ELSE IF r.db = "absent" THEN FALSE
    ELSE r.db # "empty"

\* sqlx::migrate!: the schema is applied where it is missing; rows stay
Migrate(db) == "schema"

\* RepositoryFinder::create_database
CreateDatabase(db) == Migrate(IF db = "absent" THEN "empty" ELSE db)

\* init without its early return
InitRepositoryAnyway(r) ==
    [dir |-> TRUE, db |-> CreateDatabase(r.db), objectsDir |-> TRUE,
     ignore |-> IF r.ignore = "absent" THEN "default" ELSE r.ignore,
     config |-> r.config]

\* RepositoryFinder::init_repository
InitRepository(r) ==
    IF r.dir /\ ValidateRepository(r) THEN r
    ELSE [dir |-> TRUE, db |-> CreateDatabase(r.db), objectsDir |-> TRUE,
          ignore |-> IF r.ignore = "absent" THEN "default" ELSE r.ignore,
          config |-> r.config]

\* Config::load, called by AppContext::new: a missing config.toml is written
\* with the defaults
LoadConfig(r) ==
    [r EXCEPT !.config = IF @ = "absent" THEN "default" ELSE @]

\* -------------------------------------------------------------------- Init
\* the processes that may be inside copy_to_object_store at the same time
Writers == {"first", "second"}
Idle == [pc |-> "idle", path |-> NoPath, sum |-> NoSum, c |-> 0,
         found |-> "none"]
NoWriters == [w \in Writers |-> Idle]

EmptyStore == [h \in Fingerprints |-> 0]

File(c) == IF c = 0 THEN NoFile ELSE [c |-> c, m |-> 0]
Tree(a, b, c) == [p \in Paths |-> IF p = PA THEN File(a)
                                  ELSE IF p = PB THEN File(b) ELSE File(c)]

\* the working trees a run starts from: the contents of a/f, a/g and ab/f
InitTrees == {Tree(0, 0, 0), Tree(0, 0, 1), Tree(0, 1, 0), Tree(1, 1, 2),
              Tree(1, 2, 2)}

Init ==
    /\ tree \in InitTrees
    /\ unreadable = {}
    /\ storeFull = FALSE
    /\ files = {}
    /\ history = <<>>
    /\ objects = EmptyStore
    /\ now = 0
    /\ last = NoCmd
    /\ rt = RtStart
    /\ ncmd = 0
    /\ nenv = 0
    /\ writers = NoWriters
    /\ repo = Initialised

\* ------------------------------------------------------------- environment
EnvStep ==
    /\ nenv < MaxEnv
    /\ nenv' = nenv + 1
    /\ last' = Report("env", <<>>, TRUE, 0, <<>>)
    /\ rt' = RtOther
    /\ UNCHANGED <<files, history, objects, now, ncmd, writers, repo>>

\* a file is created or overwritten
WriteFile(p, c) ==
    /\ EnvStep
    /\ tree' = [tree EXCEPT ![p] = [c |-> c, m |-> now]]
    /\ UNCHANGED <<unreadable, storeFull>>

\* a file is deleted
DeleteFile(p) ==
    /\ tree[p].c # 0
    /\ EnvStep
    /\ tree' = [tree EXCEPT ![p] = NoFile]
    /\ unreadable' = unreadable \ {p}
    /\ UNCHANGED storeFull

\* a file is moved; its modification time is kept
MoveFile(p, q) ==
    /\ tree[p].c # 0
    /\ tree[q].c = 0
    /\ EnvStep
    /\ tree' = [tree EXCEPT ![q] = tree[p], ![p] = NoFile]
    /\ unreadable' = IF p \in unreadable THEN (unreadable \ {p}) \cup {q}
                     ELSE unreadable
    /\ UNCHANGED storeFull

\* a file loses its read permission
MakeUnreadable(p) ==
    /\ tree[p].c # 0
    /\ p \notin unreadable
    /\ EnvStep
    /\ unreadable' = unreadable \cup {p}
    /\ UNCHANGED <<tree, storeFull>>

\* the object store runs out of space
FillStore ==
    /\ ~storeFull
    /\ EnvStep
    /\ storeFull' = TRUE
    /\ UNCHANGED <<tree, unreadable>>

\* a second passes
Tick ==
    /\ now < MaxTime
    /\ now' = now + 1
    /\ UNCHANGED <<tree, unreadable, storeFull, files, history, objects, last,
                   rt, ncmd, nenv, writers, repo>>

\* ---------------------------------------------------------------- commands
\* how many times in a row, the tree left alone, add <arg> has now run
Repetition(arg) ==
    IF last.cmd = "add" /\ last.arg = arg THEN last.res[1] + 1 ELSE 1

CmdStep ==
    /\ ncmd < MaxCmds
    /\ ncmd' = ncmd + 1
    /\ repo' = LoadConfig(repo)
    /\ UNCHANGED <<unreadable, storeFull, now, nenv, writers>>

\* ddrive add <arg>
CliAdd(arg) ==
    /\ CmdStep
    /\ \E r \in {AddExecute(arg)} :
          /\ files' = r.files
          /\ history' = r.history
          /\ objects' = r.objects
          /\ last' = Report("add", arg, r.ok, Cardinality(r.files),
                            <<Repetition(arg)>>)
          /\ rt' = RtAdd(arg, r)
    /\ UNCHANGED tree

\* ddrive rm tracked "<pattern>*"
RmTracked(pattern) ==
    /\ CmdStep
    /\ \E r \in {RmTrackedExecute(pattern)} :
          /\ files' = r.files
          /\ history' = r.history
          /\ last' = Report("rm", pattern, r.ok, r.n, <<>>)
          /\ rt' = RtRm(pattern, r)
    /\ UNCHANGED <<tree, objects>>

\* how many records a verify moved from one check time to a later one
Advanced(fs) ==
    Cardinality({r \in files : /\ r.last_checked # Null
                               /\ \E x \in fs : /\ x.path = r.path
                                                /\ x.last_checked > r.last_checked})

\* how many times in a row verify has now run
VerifyRepetition == IF last.cmd = "verify" THEN last.res[6] + 1 ELSE 1

\* ddrive verify [--force]
Verify(force) ==
    /\ CmdStep
    /\ \E r \in {VerifyExecute(force)} :
          /\ files' = r.files
          /\ last' = Report("verify", IF force THEN <<"force">> ELSE <<>>,
                            r.failed = 0, r.failed,
                            <<r.checked, r.passed, r.failed, r.failures,
                              Advanced(r.files), VerifyRepetition, r.list,
                              <<last.cmd, last.arg>>,
                              SeqPaths(r.candidates), r.skipped, <<>>>>)
    /\ rt' = RtOther
    /\ UNCHANGED <<tree, history, objects>>

\* ddrive dedup
Dedup ==
    /\ CmdStep
    /\ \E r \in {DedupExecute(tree, objects, files)} :
          /\ tree' = r.tree
          /\ objects' = r.objects
          /\ last' = Report("dedup", <<>>, r.ok, r.n, <<r.groups>>)
    /\ rt' = RtOther
    /\ UNCHANGED <<files, history>>

\* ddrive prune
Prune ==
    /\ CmdStep
    /\ \E r \in {PruneExecute} :
          /\ history' = r.history
          /\ tree' = r.tree
          /\ objects' = r.objects
          /\ last' = Report("prune", <<>>, r.ok, r.swept,
                            <<r.pruned, r.swept, r.groups>>)
    /\ rt' = RtOther
    /\ UNCHANGED files

Environment ==
    \/ \E p \in Paths, c \in Contents : WriteFile(p, c)
    \/ \E p \in Paths : DeleteFile(p)
    \/ \E p, q \in Paths : MoveFile(p, q)
    \/ \E p \in Paths : MakeUnreadable(p)
    \/ FillStore

Next ==
    \/ \E arg \in AddArgs : CliAdd(arg)
    \/ \E pattern \in Patterns : RmTracked(pattern)
    \/ \E force \in BOOLEAN : Verify(force)
    \/ Dedup
    \/ Prune
    \/ Environment
    \/ Tick

Spec == Init /\ [][Next]_vars

\* ------------------------------------------------- the legacy add command
\* ddrive add <arg>, as src/add.rs runs it
LegacyAdd(arg) ==
    /\ CmdStep
    /\ \E r \in {LegacyAddExecute(arg)} :
          /\ files' = r.files
          /\ history' = r.history
          /\ objects' = r.objects
          /\ last' = Report("add", arg, r.ok, Cardinality(r.files),
                            <<Repetition(arg)>>)
    /\ rt' = RtOther
    /\ UNCHANGED tree

NextLegacy ==
    \/ \E arg \in AddArgs : LegacyAdd(arg)
    \/ Environment
    \/ Tick

SpecLegacy == Init /\ [][NextLegacy]_vars

\* ------------------------------------------- the operations of the Database
\* a path outside the repository
Outside == <<"/", "x">>
\* a relative path that leaves the repository: ../x
Climbing == <<".", ".", "/", "x">>
DbPaths == {PA, PB, Outside, Climbing}
DbBatches == {<<RecordTuple(PA, Hash(1), Size(1))>>,
              <<RecordTuple(PA, Hash(2), Size(2))>>,
              <<RecordTuple(PA, Hash(1), Size(1)),
                RecordTuple(PB, Hash(1), Size(1))>>,
              <<RecordTuple(PB, Hash(2), Size(2)),
                RecordTuple(Outside, Hash(1), Size(1))>>,
              <<RecordTuple(PB, Hash(1), Size(1)),
                RecordTuple(PB, Hash(2), Size(2))>>,
              <<RecordTuple(Climbing, Hash(1), Size(1))>>}

InitDb ==
    /\ tree = Tree(0, 0, 0)
    /\ unreadable = {}
    /\ storeFull = FALSE
    /\ files = {}
    /\ history = <<>>
    /\ objects = EmptyStore
    /\ now = 0
    /\ last = NoCmd
    /\ rt = RtStart
    /\ ncmd = 0
    /\ nenv = 0
    /\ writers = NoWriters
    /\ repo = Initialised

\* one call of a Database operation: op is its name, aid the action_id it was
\* given (Null: it takes none), r its outcome
DbStep(op, arg, aid, r) ==
    /\ ncmd < MaxCmds
    /\ ncmd' = ncmd + 1
    /\ files' = r.files
    /\ history' = r.history
    /\ last' = [cmd |-> op, arg |-> arg, ok |-> r.ok, aid |-> aid,
                n |-> Cardinality(r.files), res |-> <<>>]
    /\ UNCHANGED <<tree, unreadable, storeFull, objects, now, rt, nenv,
                   writers, repo>>

DbInsertFileRecord(p, c) ==
    DbStep("insert_file_record", p, Null,
           InsertFileRecord(files, history, p, Hash(c), Size(c)))

DbBatchInsert(recs) ==
    DbStep("batch_insert_file_records", recs, now,
           BatchInsertFileRecords(files, history, now, recs))

DbBatchDelete(recs) ==
    DbStep("batch_delete_file_records", recs, now,
           BatchDeleteFileRecords(files, history, now, recs))

DbBatchUpdate(recs) ==
    DbStep("batch_update_file_records", recs, now,
           BatchUpdateFileRecords(files, history, now, recs))

DbRenameFileRecord(old, new) ==
    DbStep("rename_file_record", <<old, new>>, Null,
           RenameFileRecord(files, history, old, new))

DbUpdateLastChecked(p) ==
    DbStep("update_last_checked", p, Null,
           UpdateLastChecked(files, history, p))

DbDeleteFileRecord(p) ==
    DbStep("delete_file_record", p, Null, DeleteFileRecord(files, history, p))

DbCleanupOldHistory ==
    DbStep("cleanup_old_history", <<>>, Null,
           DbOk(files, CleanupOldHistory(history, ActionDelete, PruneCutoff)))

\* one call of a Database operation on the object store
DbStoreStep(op, arg, n, res, objs) ==
    /\ ncmd < MaxCmds
    /\ ncmd' = ncmd + 1
    /\ objects' = objs
    /\ last' = [cmd |-> op, arg |-> arg, ok |-> TRUE, aid |-> Null, n |-> n,
                res |-> res]
    /\ UNCHANGED <<tree, unreadable, storeFull, files, history, now, rt, nenv,
                   writers, repo>>

DbStoreObject(c) ==
    DbStoreStep("store_object", Hash(c), 0, <<>>,
                StoreObject(objects, Hash(c), c))

\* what the sweep before this one deleted, Null if the last call was no sweep
PreviousSweep ==
    IF last.cmd = "cleanup_orphaned_objects" THEN last.n ELSE Null

DbCleanupOrphanedObjects ==
    \E r \in {CleanupOrphanedObjects(files, history, objects)} :
       DbStoreStep("cleanup_orphaned_objects", <<>>, r.n, <<PreviousSweep>>,
                   r.objects)

NextDb ==
    \/ \E p \in DbPaths, c \in Contents : DbInsertFileRecord(p, c)
    \/ \E recs \in DbBatches : DbBatchInsert(recs)
    \/ \E recs \in DbBatches : DbBatchDelete(recs)
    \/ \E recs \in DbBatches : DbBatchUpdate(recs)
    \/ \E old, new \in DbPaths : DbRenameFileRecord(old, new)
    \/ \E p \in DbPaths : DbUpdateLastChecked(p)
    \/ \E p \in DbPaths : DbDeleteFileRecord(p)
    \/ DbCleanupOldHistory
    \/ \E c \in Contents : DbStoreObject(c)
    \/ DbCleanupOrphanedObjects
    \/ Tick

SpecDb == InitDb /\ [][NextDb]_vars

\* ------------------------------------------------- moves followed by adds
\* the working trees a run of moves starts from
MoveTrees == {Tree(1, 0, 0), Tree(0, 1, 0), Tree(1, 1, 0), Tree(1, 2, 0),
              Tree(0, 0, 2)}

\* mv old new / add . / mv new old / add . on a catalog that add . has just
\* brought up to date: f0 and rows0 are the catalog and the length of the
\* history when the first move is made
MvStart == [phase |-> 0, old |-> NoPath, new |-> NoPath, f0 |-> {}, rows0 |-> 0]
MvOff == [MvStart EXCEPT !.phase = 5]

MvOther == IF rt.phase = 0 THEN rt ELSE MvOff

MvMoved(p, q) ==
    IF /\ rt.phase = 0 /\ last.cmd = "add" /\ last.arg = ArgDot /\ last.ok
       /\ Tracked(files, p)
    THEN [phase |-> 1, old |-> p, new |-> q, f0 |-> files,
          rows0 |-> Len(history)]
    ELSE IF rt.phase = 2 /\ p = rt.new /\ q = rt.old
    THEN [rt EXCEPT !.phase = 3]
    ELSE MvOther

MvAdded(arg, r) ==
    IF rt.phase \in {1, 3} /\ arg = ArgDot /\ r.ok
    THEN [rt EXCEPT !.phase = rt.phase + 1]
    ELSE MvOther

InitRename ==
    /\ tree \in MoveTrees
    /\ unreadable = {}
    /\ storeFull = FALSE
    /\ files = {}
    /\ history = <<>>
    /\ objects = EmptyStore
    /\ now = 0
    /\ last = NoCmd
    /\ rt = MvStart
    /\ ncmd = 0
    /\ nenv = 0
    /\ writers = NoWriters
    /\ repo = Initialised

\* mv p q: the file keeps its content and its modification time
Mv(p, q) ==
    /\ nenv < MaxMoves
    /\ tree[p].c # 0
    /\ tree[q].c = 0
    /\ nenv' = nenv + 1
    /\ tree' = [tree EXCEPT ![q] = tree[p], ![p] = NoFile]
    /\ last' = Report("mv", <<p, q>>, TRUE, 0, <<>>)
    /\ rt' = MvMoved(p, q)
    /\ UNCHANGED <<unreadable, storeFull, files, history, objects, now, ncmd,
                   writers, repo>>

\* ddrive add <arg>
AddAfterMv(arg) ==
    /\ CmdStep
    /\ \E r \in {AddExecute(arg)} :
          /\ files' = r.files
          /\ history' = r.history
          /\ objects' = r.objects
          /\ last' = Report("add", arg, r.ok, Cardinality(r.files),
                            <<Repetition(arg)>>)
          /\ rt' = MvAdded(arg, r)
    /\ UNCHANGED tree

NextRename ==
    \/ \E arg \in AddArgs : AddAfterMv(arg)
    \/ \E p, q \in Paths : Mv(p, q)
    \/ Tick

SpecRename == InitRename /\ [][NextRename]_vars

\* ------------------------------------------------ an add that is cut short
\* the process stops inside add right after copy_to_object_store has written
\* the object of one file and before the transaction with that file's rows
NoStop == [stopped |-> FALSE, files |-> files, history |-> history,
           objects |-> objects, path |-> NoPath, sum |-> NoSum]

StopAtCopy(fs, hs, objs, f, sum) ==
    IF objs[sum] = 0 /\ CopyToObjectStore(objs, f.path, sum).ok
    THEN [stopped |-> TRUE, files |-> fs, history |-> hs,
          objects |-> CopyToObjectStore(objs, f.path, sum).objects,
          path |-> f.path, sum |-> sum]
    ELSE NoStop

\* process_new_files stops at its k-th file: the files before it are copied,
\* batch_insert_file_records has not run
StoppedInNew(dc, s1, k) ==
    IF k > Len(dc.new) \/ ~CalculateChecksum(dc.new[k].path).ok THEN NoStop
    ELSE StopAtCopy(s1.files, s1.history,
                    CopyNewLoop(objects, SubSeq(dc.new, 1, k - 1), 1,
                                <<>>).objects,
                    dc.new[k], CalculateChecksum(dc.new[k].path).v)

\* process_changed_files stops at its k-th file: the files before it are
\* copied and updated, batch_update_file_records has not run for the k-th
StoppedInChanged(dc, aid, s2, k) ==
    IF k > Len(dc.changed) \/ ~s2.ok THEN NoStop
    ELSE Only({IF ~b.ok THEN NoStop
               ELSE StopAtCopy(b.files, b.history, b.objects, dc.changed[k],
                               dc.changed[k].b3sum) :
               b \in {ChangedLoop(s2.files, s2.history, s2.objects, aid,
                                  SubSeq(dc.changed, 1, k - 1), 1)}})

StoppedAfterRenames(dc, aid, s1, stage, k) ==
    IF ~s1.ok THEN NoStop
    ELSE IF stage = "new" THEN StoppedInNew(dc, s1, k)
    ELSE Only({StoppedInChanged(dc, aid, s2, k) :
               s2 \in {IF dc.new = <<>>
                       THEN AddState(TRUE, s1.files, s1.history, objects)
                       ELSE ProcessNewFiles(s1.files, s1.history, objects, aid,
                                            dc.new)}})

StoppedAfterDetect(dc, aid, stage, k) ==
    IF ~dc.ok THEN NoStop
    ELSE Only({StoppedAfterRenames(dc, aid, s1, stage, k) :
               s1 \in {IF dc.renames = <<>> THEN DbOk(files, history)
                       ELSE ProcessRenames(files, history, aid, dc.renames)}})

\* cli AddCommand::execute up to the point where the process stops
AddStoppedExecute(arg, stage, k) ==
    Only({IF scanned = <<>> THEN NoStop
          ELSE Only({StoppedAfterDetect(dc, now, stage, k) :
                     dc \in {DetectChanges(scanned, TrackedInScope(files, arg))}}) :
          scanned \in {ScanFiles(Canonicalize(arg))}})

\* ddrive add <arg>, killed at the k-th file of a stage
AddStopped(arg, stage, k) ==
    /\ CmdStep
    /\ \E r \in {AddStoppedExecute(arg, stage, k)} :
          /\ r.stopped
          /\ files' = r.files
          /\ history' = r.history
          /\ objects' = r.objects
          /\ last' = Report("add stopped", arg, FALSE, Cardinality(r.files),
                            <<r.path, r.sum>>)
    /\ rt' = RtOther
    /\ UNCHANGED tree

NextCrash ==
    \/ \E arg \in AddArgs : CliAdd(arg)
    \/ \E arg \in AddArgs, stage \in {"new", "changed"},
          k \in 1..Len(PathOrder) : AddStopped(arg, stage, k)
    \/ Prune
    \/ Environment
    \/ Tick

SpecCrash == Init /\ [][NextCrash]_vars

\* ------------------------------------- two processes copying into the store
\* Each writer is a ddrive add at one new file: it computes the checksum and
\* goes through copy_to_object_store one file-system call at a time, then
\* writes the row.  The calls of the two writers interleave.

\* what objects/<checksum> holds while a copy of content c has opened it and
\* not yet written all of it
Partial(c) == 0 - c

IngestStep(w, from) ==
    /\ writers[w].pc = from
    /\ UNCHANGED <<tree, unreadable, storeFull, now, last, rt, ncmd, nenv,
                   repo>>

At(w, pc) == [writers EXCEPT ![w].pc = pc]

\* process_new_files: calculate_single_checksum of the file
IngestStart(w, p) ==
    /\ IngestStep(w, "idle")
    /\ CalculateChecksum(p).ok
    /\ writers' = [writers EXCEPT ![w] =
                      [pc |-> "check", path |-> p,
                       sum |-> CalculateChecksum(p).v, c |-> tree[p].c,
                       found |-> "none"]]
    /\ UNCHANGED <<files, history, objects>>

\* copy_to_object_store: if object_path.exists() return Ok(())
IngestExists(w) ==
    /\ IngestStep(w, "check")
    /\ writers' = [writers EXCEPT
                      ![w].pc = IF objects[writers[w].sum] # 0 THEN "ok"
                                ELSE "copy",
                      ![w].found = IF objects[writers[w].sum] # 0
                                   THEN "present" ELSE "absent"]
    /\ UNCHANGED <<files, history, objects>>

\* the reflink succeeds: it creates the target, which must not exist, as a
\* clone of the file
IngestReflink(w) ==
    /\ IngestStep(w, "copy")
    /\ ~storeFull
    /\ objects[writers[w].sum] = 0
    /\ objects' = [objects EXCEPT ![writers[w].sum] = writers[w].c]
    /\ writers' = At(w, "ok")
    /\ UNCHANGED <<files, history>>

\* the reflink finds the target, created since the test: reflink_or_copy
\* hands the error back, and copy_to_object_store returns it
IngestReflinkRefused(w) ==
    /\ IngestStep(w, "copy")
    /\ objects[writers[w].sum] # 0
    /\ writers' = At(w, "err")
    /\ UNCHANGED <<files, history, objects>>

\* the reflink fails and fs::copy(src, dest) takes over: it opens the target,
\* creating or truncating it
IngestOpenCopy(w) ==
    /\ IngestStep(w, "copy")
    /\ ~storeFull
    /\ objects' = [objects EXCEPT ![writers[w].sum] = Partial(writers[w].c)]
    /\ writers' = At(w, "write")
    /\ UNCHANGED <<files, history>>

\* fs::copy has written its last byte.  If the other writer is half way
\* through the same target, what it truncated may still be missing.
IngestFinishCopy(w) ==
    /\ IngestStep(w, "write")
    /\ \E c \in {writers[w].c} \cup
                {Partial(writers[v].c) :
                    v \in {v \in Writers : /\ v # w
                                           /\ writers[v].pc = "write"
                                           /\ writers[v].sum = writers[w].sum}} :
          objects' = [objects EXCEPT ![writers[w].sum] = c]
    /\ writers' = At(w, "ok")
    /\ UNCHANGED <<files, history>>

\* process_new_files after Ok: batch_insert_file_records of the file
IngestCommit(w) ==
    /\ IngestStep(w, "ok")
    /\ \E r \in {BatchInsertFileRecords(files, history, now,
                    <<RecordTuple(writers[w].path, writers[w].sum,
                                  Size(writers[w].c))>>)} :
          /\ files' = r.files
          /\ history' = r.history
          /\ writers' = At(w, IF r.ok THEN "committed" ELSE "failed")
    /\ UNCHANGED objects

\* process_new_files after Err: a warning, failed_count += 1, continue
IngestSkip(w) ==
    /\ IngestStep(w, "err")
    /\ writers' = At(w, "skipped")
    /\ UNCHANGED <<files, history, objects>>

NextIngest ==
    \/ \E w \in Writers, p \in Paths : IngestStart(w, p)
    \/ \E w \in Writers : IngestExists(w)
    \/ \E w \in Writers : IngestReflink(w)
    \/ \E w \in Writers : IngestReflinkRefused(w)
    \/ \E w \in Writers : IngestOpenCopy(w)
    \/ \E w \in Writers : IngestFinishCopy(w)
    \/ \E w \in Writers : IngestCommit(w)
    \/ \E w \in Writers : IngestSkip(w)

SpecIngest == Init /\ [][NextIngest]_vars

\* ------------------------------------------- detect_changes on its own
\* detect_changes applied once to a scan and a catalog list drawn freely: any
\* working tree, any catalog with at most one record per path, one file
\* possibly unreadable.  The records were written at second 0; a file is as
\* old as its record or newer.
FileAt(c, m) == IF c = 0 THEN NoFile ELSE [c |-> c, m |-> m]

DetectTrees ==
    {[p \in Paths |-> FileAt(cs[p], ms[p])] :
        cs \in [Paths -> 0..MaxContent], ms \in [Paths -> {0, MaxTime}]}

CatalogOf(cat) ==
    {FileRow(i, PathOrder[i], Hash(cat[i]), Size(cat[i]), 0, 0, Null) :
        i \in {i \in 1..Len(PathOrder) : cat[i] # 0}}

DetectCatalogs ==
    {CatalogOf(cat) : cat \in [1..Len(PathOrder) -> 0..MaxContent]}

InitDetect ==
    /\ tree \in DetectTrees
    /\ unreadable \in {{}} \cup {{p} : p \in Paths}
    /\ storeFull = FALSE
    /\ files \in DetectCatalogs
    /\ history = <<>>
    /\ objects = EmptyStore
    /\ now = MaxTime
    /\ last = NoCmd
    /\ rt = RtStart
    /\ ncmd = 0
    /\ nenv = 0
    /\ writers = NoWriters
    /\ repo = Initialised

\* AddCommand::execute up to its call of detect_changes: the scan of the add
\* path, the tracked records in scope, and what detect_changes returns
Detect(arg) ==
    /\ ncmd = 0
    /\ ncmd' = ncmd + 1
    /\ \E scanned \in {ScanFiles(Canonicalize(arg))},
          tracked \in {TrackedInScope(files, arg)} :
          \E dc \in {DetectChanges(scanned, tracked)} :
             last' = Report("detect_changes", arg, dc.ok, Len(dc.renames),
                            <<dc, scanned, tracked>>)
    /\ UNCHANGED <<tree, unreadable, storeFull, files, history, objects, now,
                   rt, nenv, writers, repo>>

\* the same call without checksums, as status makes it
DetectLight(arg) ==
    /\ ncmd = 0
    /\ ncmd' = ncmd + 1
    /\ \E scanned \in {ScanFiles(Canonicalize(arg))},
          tracked \in {TrackedInScope(files, arg)} :
          \E dc \in {DetectChangesLight(scanned, tracked)} :
             last' = Report("detect_changes (metadata)", arg, dc.ok,
                            Len(dc.renames), <<dc, scanned, tracked>>)
    /\ UNCHANGED <<tree, unreadable, storeFull, files, history, objects, now,
                   rt, nenv, writers, repo>>

NextDetect ==
    \/ \E arg \in AddArgs : Detect(arg)
    \/ \E arg \in AddArgs : DetectLight(arg)

SpecDetect == InitDetect /\ [][NextDetect]_vars

\* ------------------------------- status, log, rm deleted, rejected input
\* the bs58 alphabet: the digit of a character is its position minus one
B58Alphabet ==
    <<"1", "2", "3", "4", "5", "6", "7", "8", "9", "A", "B", "C", "D", "E",
      "F", "G", "H", "J", "K", "L", "M", "N", "P", "Q", "R", "S", "T", "U",
      "V", "W", "X", "Y", "Z", "a", "b", "c", "d", "e", "f", "g", "h", "i",
      "j", "k", "m", "n", "o", "p", "q", "r", "s", "t", "u", "v", "w", "x",
      "y", "z">>

B58Digit(ch) == (CHOOSE i \in 1..Len(B58Alphabet) : B58Alphabet[i] = ch) - 1

\* how many elements at the head of s equal x
RECURSIVE LeadingCount(_, _)
LeadingCount(s, x) ==
    IF s = <<>> \/ s[1] # x THEN 0 ELSE 1 + LeadingCount(Tail(s), x)

Repeat(x, n) == [i \in 1..n |-> x]

\* the big-endian digits of v in a base, none for 0
RECURSIVE DigitsOf(_, _)
DigitsOf(v, base) ==
    IF v = 0 THEN <<>> ELSE Append(DigitsOf(v \div base, base), v % base)

RECURSIVE ValueOf(_, _, _)
ValueOf(digits, base, acc) ==
    IF digits = <<>> THEN acc
    ELSE ValueOf(Tail(digits), base, acc * base + digits[1])

\* the bytes of an action_id, an i64
ActionIdBytes == 8

\* i64::to_be_bytes of an action_id that is not negative
ToBeBytes(id) ==
    Repeat(0, ActionIdBytes - Len(DigitsOf(id, 256))) \o DigitsOf(id, 256)

\* bs58::encode: a '1' per leading zero byte, then the number in base 58
Base58Encode(bytes) ==
    LET digits == DigitsOf(ValueOf(bytes, 256, 0), Len(B58Alphabet))
    IN Repeat("1", LeadingCount(bytes, 0))
          \o [i \in 1..Len(digits) |-> B58Alphabet[digits[i] + 1]]

\* bs58::decode(..).into_vec(): [ok, v]; a zero byte per leading '1', then
\* the bytes of the number
Base58Decode(str) ==
    IF \E i \in 1..Len(str) : str[i] \notin Range(B58Alphabet)
    THEN [ok |-> FALSE, v |-> <<>>]
    ELSE [ok |-> TRUE,
          v |-> Repeat(0, LeadingCount(str, "1"))
                  \o DigitsOf(ValueOf([i \in 1..Len(str) |-> B58Digit(str[i])],
                                      Len(B58Alphabet), 0), 256)]

\* Database::get_history_entries_by_action_id
GetHistoryEntriesByActionId(hs, id) ==
    SelectSeq(hs, LAMBDA h : h.action_id = id)

\* Database::get_history_entries_by_action_id_base58: [ok, kind, v]
GetHistoryEntriesByActionIdBase58(hs, str) ==
    IF ~Base58Decode(str).ok
    THEN [ok |-> FALSE, kind |-> "Validation", v |-> <<>>]
    ELSE IF Len(Base58Decode(str).v) # ActionIdBytes
    THEN [ok |-> FALSE, kind |-> "Validation", v |-> <<>>]
    ELSE [ok |-> TRUE, kind |-> "",
          v |-> GetHistoryEntriesByActionId(
                   hs, ValueOf(Base58Decode(str).v, 256, 0))]

\* HistoryCommand::show: [ok, kind, v]; entries.next().expect("entry")
\* panics when there is no row
LogShowExecute(str) ==
    LET entries == GetHistoryEntriesByActionIdBase58(history, str)
    IN IF ~entries.ok THEN entries
       ELSE IF entries.v = <<>> THEN [ok |-> FALSE, kind |-> "panic", v |-> <<>>]
       ELSE entries

\* HistoryCommand::list without limit and filter: the rows per action_id,
\* each under its base58 name
LogListExecute ==
    {<<Base58Encode(ToBeBytes(id)), GetHistoryEntriesByActionId(history, id)>> :
        id \in {history[i].action_id : i \in 1..Len(history)}}

\* the ids given to log show: those of the seconds of a run, one that is too
\* short, one with a character outside the alphabet, one that is too long
LogIds ==
    {Base58Encode(ToBeBytes(t)) : t \in 0..MaxTime}
       \cup {<<"2">>, Base58Encode(ToBeBytes(0)) \o <<"1">>,
             <<"1", "1", "1", "1", "1", "1", "1", "0">>}

\* a query: it changes no table and no file
QueryStep(cmd, arg, ok, n, res) ==
    /\ CmdStep
    /\ last' = Report(cmd, arg, ok, n, res)
    /\ rt' = RtOther
    /\ UNCHANGED <<tree, files, history, objects>>

\* ddrive log show <id>
LogShow(str) ==
    \E r \in {LogShowExecute(str)} :
       QueryStep("log show", str, r.ok, Len(r.v), <<r.kind, r.v>>)

\* ddrive log list
LogList ==
    \E r \in {LogListExecute} :
       QueryStep("log list", <<>>, TRUE, Cardinality(r), <<"", r>>)

\* StatusCommand::gather_stats: detect_changes without checksums over the
\* whole repository
StatusExecute ==
    LET scanned == ScanFiles(<<>>)
        tracked == GetAllFiles(files)
        candDel == LET ts == SelectSeq(tracked,
                                LAMBDA r : r.path \notin SeqPaths(scanned))
                   IN [i \in 1..Len(ts) |-> FileInfoOfRecord(ts[i])]
        candNew == SelectSeq(scanned, LAMBDA f : f.path \notin SeqPaths(tracked))
        updated == SelectSeq(scanned,
                     LAMBDA f : /\ f.path \in SeqPaths(tracked)
                                /\ ~MetadataUnchanged(f, Lookup(tracked, f.path)))
        renames == RenamesByMetadata(candDel, candNew)
    IN [tracked_files |-> Len(tracked),
        untracked_files |-> Len(candNew) - Cardinality({x[2] : x \in renames}),
        deleted_files |-> Len(candDel) - Cardinality({x[1] : x \in renames}),
        renamed_files |-> renames,
        updated_files |-> Len(updated),
        duplicate_groups |-> Cardinality(DuplicateChecksums(files)),
        files_needing_check |->
            Cardinality({r \in files : r.last_checked = Null})]

\* ddrive status
Status ==
    \E r \in {StatusExecute} :
       QueryStep("status", <<>>, TRUE,
                 r.tracked_files + r.untracked_files + r.deleted_files
                    + r.updated_files + r.duplicate_groups,
                 <<"", r>>)

\* RmCommand::deleted: the tracked files that are missing from the working
\* tree and match the pattern are removed from the catalog
RmDeletedExecute(pattern) ==
    LET all == GetAllFiles(files)
        rm == SelectSeq(all, LAMBDA r : /\ tree[r.path].c = 0
                                        /\ GlobMatches(pattern, r.path))
        db == BatchDeleteFileRecords(files, history, now,
                 [i \in 1..Len(rm) |-> RecordTuple(rm[i].path, rm[i].b3sum,
                                                   rm[i].size)])
    IN IF rm = <<>> THEN [ok |-> TRUE, files |-> files, history |-> history,
                          n |-> 0]
       ELSE [ok |-> db.ok, files |-> db.files, history |-> db.history,
             n |-> IF db.ok THEN Len(rm) ELSE 0]

\* ddrive rm deleted "<pattern>*"
RmDeleted(pattern) ==
    /\ CmdStep
    /\ \E r \in {RmDeletedExecute(pattern)} :
          /\ files' = r.files
          /\ history' = r.history
          /\ last' = Report("rm deleted", pattern, r.ok, r.n, <<>>)
    /\ rt' = RtOther
    /\ UNCHANGED <<tree, objects>>

\* add paths that lead out of the repository: "..", and the absolute /x
ArgParent == <<".", ".">>
OutsideArgs == {ArgParent, Outside}

\* repo_root.join(path).canonicalize()
AddPath(arg) ==
    IF IsAbsolute(arg) THEN arg
    ELSE IF arg = ArgParent THEN <<"/">>
    ELSE IF Canonicalize(arg) = <<>> THEN RepoRoot
    ELSE Join(RepoRoot, Canonicalize(arg))

\* AddCommand::execute with a path that is not inside the repository:
\* Err(DdriveError::InvalidDirectory) before anything is scanned
AddOutside(arg) ==
    /\ ~StripPrefix(AddPath(arg), RepoRoot).ok
    /\ QueryStep("add", arg, FALSE, 0, <<"InvalidDirectory">>)

\* glob::Pattern::new: a '[' that is never closed is a PatternError
BadGlob == <<"a", "[">>
PatternNew(glob) ==
    \A i \in 1..Len(glob) :
        glob[i] = "[" => \E j \in (i + 1)..Len(glob) : glob[j] = "]"

\* DedupCommand::execute with a path filter: [ok, kind, tree, objects, n]
DedupFilteredExecute(filter) ==
    IF ~PatternNew(filter)
    THEN [ok |-> FALSE, kind |-> "GlobPattern", tree |-> tree,
          objects |-> objects, n |-> 0]
    ELSE Only({[ok |-> r.ok, kind |-> IF r.ok THEN "" ELSE "Io",
                tree |-> r.tree, objects |-> r.objects, n |-> r.n] :
               r \in {DedupExecute(tree, objects,
                         {x \in files : GlobMatches(filter, x.path)})}})

\* ddrive dedup --path <filter>
DedupFiltered(filter) ==
    /\ CmdStep
    /\ \E r \in {DedupFilteredExecute(filter)} :
          /\ tree' = r.tree
          /\ objects' = r.objects
          /\ last' = Report("dedup", filter, r.ok, r.n, <<r.kind>>)
    /\ rt' = RtOther
    /\ UNCHANGED <<files, history>>

NextInput ==
    \/ \E arg \in AddArgs : CliAdd(arg)
    \/ \E arg \in OutsideArgs : AddOutside(arg)
    \/ \E pattern \in Patterns : RmTracked(pattern)
    \/ \E pattern \in Patterns : RmDeleted(pattern)
    \/ \E force \in BOOLEAN : Verify(force)
    \/ Dedup
    \/ \E filter \in Patterns \cup {BadGlob} : DedupFiltered(filter)
    \/ Status
    \/ Prune
    \/ LogList
    \/ \E str \in LogIds : LogShow(str)
    \/ \E p \in Paths : DeleteFile(p)
    \/ Tick

SpecInput == Init /\ [][NextInput]_vars

\* ------------------------------------------------------------------- init
\* a directory that is not a repository yet: ddrive init, the commands that
\* need a repository, and a user who edits or removes what .ddrive holds
InitFresh ==
    /\ tree \in InitTrees
    /\ unreadable = {}
    /\ storeFull = FALSE
    /\ files = {}
    /\ history = <<>>
    /\ objects = EmptyStore
    /\ now = 0
    /\ last = NoCmd
    /\ rt = RtStart
    /\ ncmd = 0
    /\ nenv = 0
    /\ writers = NoWriters
    /\ repo = NoControlDir

\* how many times in a row init has now run
InitRepetition == IF last.cmd = "init" THEN last.res[1] + 1 ELSE 1

\* ddrive init
RunInit ==
    /\ ncmd < MaxInitCmds
    /\ ncmd' = ncmd + 1
    /\ repo' = InitRepository(repo)
    /\ last' = Report("init", <<>>, TRUE, 0,
                      <<InitRepetition, ValidateRepository(repo)>>)
    /\ rt' = RtOther
    /\ UNCHANGED <<tree, unreadable, storeFull, files, history, objects, now,
                   nenv, writers>>

\* RepositoryFinder::ensure_repository_exists, run in the repository root
EnsureRepositoryExists == ValidateRepository(repo)

ControlDirStep ==
    /\ repo.dir
    /\ nenv < MaxEnv
    /\ nenv' = nenv + 1
    /\ last' = Report("env", <<>>, TRUE, 0, <<>>)
    /\ rt' = RtOther
    /\ UNCHANGED <<tree, unreadable, storeFull, objects, now, ncmd, writers>>

\* the user rewrites or removes .ddrive/ignore
EditIgnore(v) ==
    /\ ControlDirStep
    /\ repo' = [repo EXCEPT !.ignore = v]
    /\ UNCHANGED <<files, history>>

\* the user rewrites or removes .ddrive/config.toml
EditConfig(v) ==
    /\ ControlDirStep
    /\ repo' = [repo EXCEPT !.config = v]
    /\ UNCHANGED <<files, history>>

\* the user removes .ddrive/metadata.sqlite3, or leaves it empty
LoseDatabase(v) ==
    /\ ControlDirStep
    /\ repo' = [repo EXCEPT !.db = v]
    /\ files' = {}
    /\ history' = <<>>

NextInit ==
    \/ RunInit
    \/ \E arg \in AddArgs : EnsureRepositoryExists /\ CliAdd(arg)
    \/ \E force \in BOOLEAN : EnsureRepositoryExists /\ Verify(force)
    \/ \E v \in {"absent", "edited"} : EditIgnore(v)
    \/ \E v \in {"absent", "edited"} : EditConfig(v)
    \/ \E v \in {"absent", "empty"} : LoseDatabase(v)

SpecInit == InitFresh /\ [][NextInit]_vars

\* ------------------------------------ find_potential_renames_by_metadata
\* the pairing on its own: lists of deleted and of new files, in the order
\* detect_changes met them, with sizes and creation times that collide
PD == <<"a", "b", "/", "g">>

\* the lists of at most two files with the given paths, in either order
PairingLists(p, q) ==
    LET Info(path, k) == FileInfo(path, k[1], k[2], NoSum)
        Keys == (1..MaxContent) \X {0, MaxTime}
    IN {<<>>}
       \cup {<<Info(x, k)>> : x \in {p, q}, k \in Keys}
       \cup {<<Info(p, k), Info(q, l)>> : k \in Keys, l \in Keys}
       \cup {<<Info(q, k), Info(p, l)>> : k \in Keys, l \in Keys}

\* find_potential_renames_by_metadata(deleted_files, new_files)
PairByMetadata(deleted, news) ==
    /\ ncmd = 0
    /\ ncmd' = ncmd + 1
    /\ \E renames \in {RenamePairsByMetadata(deleted, news, 1)} :
          last' = Report("find_potential_renames_by_metadata", <<>>, TRUE,
                         Len(renames), <<renames, deleted, news>>)
    /\ UNCHANGED <<tree, unreadable, storeFull, files, history, objects, now,
                   rt, nenv, writers, repo>>

NextPairing ==
    \E deleted \in PairingLists(PA, PB), news \in PairingLists(PC, PD) :
       PairByMetadata(deleted, news)

SpecPairing == InitDb /\ [][NextPairing]_vars

\* ----------------------------------------------------- verify with a filter
\* ddrive verify --path "<filter>*" [--force]
VerifyFiltered(filter, force) ==
    /\ ncmd < MaxVerifyCmds
    /\ ncmd' = ncmd + 1
    /\ repo' = LoadConfig(repo)
    /\ \E r \in {VerifyExecuteFiltered(filter, force)} :
          /\ files' = r.files
          /\ last' = Report("verify", IF force THEN <<"force">> ELSE <<>>,
                            r.failed = 0, r.failed,
                            <<r.checked, r.passed, r.failed, r.failures,
                              Advanced(r.files), VerifyRepetition, r.list,
                              <<last.cmd, last.arg>>,
                              SeqPaths(r.candidates), r.skipped, filter>>)
    /\ rt' = RtOther
    /\ UNCHANGED <<tree, unreadable, storeFull, history, objects, now, nenv,
                   writers>>

NextVerify ==
    \/ \E arg \in AddArgs : CliAdd(arg)
    \/ \E force \in BOOLEAN : Verify(force)
    \/ \E filter \in Patterns, force \in BOOLEAN : VerifyFiltered(filter, force)
    \/ \E p \in Paths, c \in Contents : WriteFile(p, c)
    \/ \E p \in Paths : DeleteFile(p)
    \/ \E p \in Paths : MakeUnreadable(p)
    \/ Tick

SpecVerify == Init /\ [][NextVerify]_vars

\* ================================================================== claims
\* a step that is one run of the named command
IsRun(cmd) == last'.cmd = cmd /\ ncmd' = ncmd + 1

\* the rows a step appended to the history
NewRows == {history'[i] : i \in (Len(history) + 1)..Len(history')}

\* C1: after every command each FileRecord's fingerprint names an object that
\* is present in the object store, also when the copy into the store failed.
C1_EveryRecordHasItsObject == \A r \in files : objects[r.b3sum] # 0

\* C2: every insert, update, path change or delete of a Files row comes with a
\* History row of the same operation that carries the operation's action_id
\* and the matching action type.
C2_EveryMutationHasItsHistoryRow ==
    [][\A p \in {r.path : r \in files \cup files'} :
          LET before == {<<r.b3sum, r.size>> : r \in {x \in files : x.path = p}}
              after == {<<r.b3sum, r.size>> : r \in {x \in files' : x.path = p}}
          IN before # after =>
               \E h \in NewRows :
                  /\ h.action_id = last'.aid
                  /\ \/ /\ before = {} /\ h.path = p
                        /\ h.action_type \in {ActionAdd, ActionRename}
                     \/ /\ after = {} /\ h.action_type = ActionDelete
                        /\ h.path = p
                     \/ /\ after = {} /\ h.action_type = ActionRename
                        /\ h.old_path = p
                     \/ /\ before # {} /\ after # {} /\ h.path = p
                        /\ h.action_type = ActionUpdate]_vars

\* C3: the orphan sweep of prune deletes an object only if no FileRecord and
\* no HistoryRecord references its fingerprint when the sweep starts; every
\* referenced object stays; the reported count is the number deleted.
C3_SweepDeletesOnlyOrphans ==
    [][IsRun("prune") =>
         LET deleted == {h \in Fingerprints : objects[h] # 0 /\ objects'[h] = 0}
             Referenced(h) == \/ \E r \in files : r.b3sum = h
                              \/ \E i \in 1..Len(history') : history'[i].b3sum = h
         IN /\ \A h \in deleted : ~Referenced(h)
            /\ \A h \in Fingerprints :
                  Referenced(h) /\ objects[h] # 0 => objects'[h] = objects[h]
            /\ last'.n = Cardinality(deleted)]_vars

\* a prune whose sweep deleted an object and left a referenced one in place
C3_Witness ==
    /\ last.cmd = "prune"
    /\ last.n >= 1
    /\ \E r \in files : objects[r.b3sum] # 0

\* C4: after any sequence of whole and scoped adds, rename processing and rm,
\* no two FileRecords have the same path.
C4_PathsAreUnique == \A r1, r2 \in files : r1.path = r2.path => r1 = r2

\* an add was refused rows for paths the catalog already holds
C4_Witness ==
    /\ last.cmd = "add"
    /\ last.arg = ArgDotA
    /\ ~last.ok
    /\ unreadable = {}
    /\ Cardinality(files) >= 2

\* C5: every FileRecord has last_checked null or not before its updated_at.
C5_LastCheckedNotBeforeUpdatedAt ==
    \A r \in files : r.last_checked = Null \/ r.last_checked >= r.updated_at

\* C6: every object's name is the BLAKE3 digest of its content, also after an
\* add in which fingerprinting some file of the batch failed.
C6_ObjectNamesAreDigests ==
    \A h \in Fingerprints : objects[h] # 0 => Hash(objects[h]) = h

\* C7: when add <path> succeeds, every FileRecord under <path> whose file is
\* missing from the scan and that no rename pairs is removed from the catalog
\* and has a Delete history row with the command's action_id.
C7_AddRemovesMissingFiles ==
    [][IsRun("add") /\ last'.ok =>
         \A r \in files :
            /\ InDir(r.path, Canonicalize(last'.arg))
            /\ tree[r.path].c = 0
            /\ ~ \E h \in NewRows : h.action_type = ActionRename
                                    /\ h.old_path = r.path
            => /\ ~ \E x \in files' : x.path = r.path
               /\ \E h \in NewRows : /\ h.action_type = ActionDelete
                                     /\ h.path = r.path
                                     /\ h.action_id = last'.aid]_vars

\* C8: add <path> leaves every FileRecord outside the <path> subtree as it
\* is, records in sibling directories with a common name prefix included.
C8_AddLeavesOtherSubtreesAlone ==
    [][IsRun("add") =>
         \A r \in files :
            ~InDir(r.path, Canonicalize(last'.arg)) => r \in files']_vars

\* C9: add run again, the working tree unchanged in between, changes no Files
\* row, appends no History row and leaves the object store as it is.
C9_ReAddIsNoOp ==
    [][IsRun("add") /\ last'.res[1] >= 2 =>
         files' = files /\ history' = history /\ objects' = objects]_vars

\* a third add in a row over a catalog that tracks files
C9_Witness ==
    /\ last.cmd = "add"
    /\ last.res[1] >= 3
    /\ last.ok
    /\ files # {}

\* the history rows of a path, oldest first
RowsOf(path) == SelectSeq(history, LAMBDA h : h.path = path)

\* C10: add, rm tracked, add of the same files: each path tracked after the
\* first add has exactly one FileRecord with the same fingerprint and size,
\* and its history is Add, Delete, Add, each row with its command's action_id.
C10_AddRmAddRoundTrip ==
    rt.phase = 3 =>
      \A r1 \in rt.f1 :
         /\ Cardinality({r \in files : r.path = r1.path}) = 1
         /\ \A r \in files : r.path = r1.path =>
               r.b3sum = r1.b3sum /\ r.size = r1.size
         /\ [i \in 1..Len(RowsOf(r1.path)) |->
               <<RowsOf(r1.path)[i].action_type, RowsOf(r1.path)[i].action_id>>]
            = <<<<ActionAdd, rt.a1>>, <<ActionDelete, rt.a2>>,
                <<ActionAdd, rt.a3>>>>

\* a completed round trip over tracked files, its commands in different seconds
C10_Witness ==
    /\ rt.phase = 3
    /\ rt.f1 # {}
    /\ rt.a1 < rt.a2
    /\ rt.a2 < rt.a3

\* the history rows appended since the first move, as
\* <<action_type, old_path, path, b3sum>>
RowsSinceMove ==
    [i \in 1..(Len(history) - rt.rows0) |->
        <<history[rt.rows0 + i].action_type, history[rt.rows0 + i].old_path,
          history[rt.rows0 + i].path, history[rt.rows0 + i].b3sum>>]

Untracked ==
    {h \in Fingerprints :
        /\ objects[h] # 0
        /\ ~ \E r \in files : r.b3sum = h
        /\ ~ \E i \in 1..Len(history') :
               history'[i].action_type = ActionDelete /\ history'[i].b3sum = h}

\* C12: once rm tracked has removed every FileRecord of a fingerprint and
\* prune has removed its Delete rows, the orphan sweep deletes the object.
C12_SweepReclaimsUntracked ==
    [][IsRun("prune") => \A h \in Untracked : objects'[h] = 0]_vars

\* C12, as the program has it: such an object is deleted exactly if no history
\* row of any type references its fingerprint; while an Add, Update or Rename
\* row of every present object remains, the sweep reports zero.
C12_SweepKeepsWhatHistoryNames ==
    [][IsRun("prune") =>
         LET Named(h) == \E i \in 1..Len(history') : history'[i].b3sum = h
         IN /\ \A h \in Untracked : (objects'[h] = 0) <=> ~Named(h)
            /\ (\A h \in Fingerprints : objects[h] # 0 => Named(h))
                  => last'.n = 0]_vars

\* a prune that removed the Delete rows of an emptied catalog and left the
\* objects that Add rows name
C12_Witness ==
    /\ last.cmd = "prune"
    /\ last.res[1] >= 1
    /\ last.n = 0
    /\ files = {}
    /\ \A i \in 1..Len(history) : history[i].action_type # ActionDelete
    /\ \E i \in 1..Len(history) : objects[history[i].b3sum] # 0

\* C13: an orphan sweep that directly follows an orphan sweep deletes no
\* object and reports zero.
C13_SecondSweepDeletesNothing ==
    [][/\ last.cmd = "cleanup_orphaned_objects"
       /\ last'.cmd = "cleanup_orphaned_objects"
       /\ ncmd' = ncmd + 1
       => last'.n = 0 /\ objects' = objects]_vars

\* a sweep that found nothing, right after a sweep that deleted objects
C13_Witness ==
    /\ last.cmd = "cleanup_orphaned_objects"
    /\ last.res[1] >= 1
    /\ last.n = 0

\* the candidates of the verify a step ran, and whether it was forced
StepForce == last'.arg = <<"force">>
StepCandidates == GetFilesForVerification(files, StepForce)

\* verify read the file of a record and compared fingerprints
Hashed(r) == StepForce \/ CheckMetadataChanges(r.path, r)
Missing(r) == tree[r.path].c = 0
FoundMismatch(r) ==
    /\ ~Missing(r)
    /\ Hashed(r)
    /\ r.path \notin unreadable
    /\ Hash(tree[r.path].c) # r.b3sum
Failed(r) == Missing(r) \/ (Hashed(r) /\ r.path \in unreadable) \/ FoundMismatch(r)

\* C14: a verify that finds a fingerprint mismatch for a file leaves that
\* FileRecord and the history as they are; a record changes only by getting
\* last_checked set, and only if it is a candidate that passed.
C14_MismatchLeavesCatalogAlone ==
    [][IsRun("verify") =>
         /\ history' = history
         /\ \A r \in files :
               /\ FoundMismatch(r) => r \in files'
               /\ r \notin files' =>
                     /\ r \in Range(StepCandidates)
                     /\ ~Failed(r)
                     /\ [r EXCEPT !.last_checked = now] \in files']_vars

\* a verify that reported a mismatch and passed another file
C14_Witness ==
    /\ last.cmd = "verify"
    /\ last.res[4] >= 1
    /\ last.res[2] >= 1
    /\ \E r \in files : /\ r.last_checked = Null
                        /\ tree[r.path].c # 0
                        /\ Hash(tree[r.path].c) # r.b3sum

\* C15: verify leaves the set of FileRecords, each record's path, fingerprint,
\* size, created_at and updated_at, and the history unchanged; last_checked is
\* the only field that changes and it never decreases.
C15_VerifyOnlyAdvancesLastChecked ==
    [][IsRun("verify") =>
         /\ history' = history
         /\ Cardinality(files') = Cardinality(files)
         /\ \A r \in files : \E x \in files' :
               /\ [x EXCEPT !.last_checked = r.last_checked] = r
               /\ r.last_checked # Null =>
                     x.last_checked # Null /\ x.last_checked >= r.last_checked]_vars

\* a second verify in a row that moved a check time forward
C15_Witness ==
    /\ last.cmd = "verify"
    /\ last.res[6] >= 2
    /\ last.res[5] >= 1

\* C16: verify handles every candidate, those after a failed one included,
\* and ends in a Validation error exactly if some candidate failed.
C16_VerifyFinishesAndReports ==
    [][IsRun("verify") =>
         LET todo == StepCandidates
         IN /\ last'.ok <=> ~ \E i \in 1..Len(todo) : Failed(todo[i])
            /\ last'.res[2] + last'.res[3] = Len(todo)
            /\ last'.res[3] = Cardinality({i \in 1..Len(todo) : Failed(todo[i])})
            /\ \A i \in 1..Len(todo) :
                  ~Failed(todo[i]) =>
                     [todo[i] EXCEPT !.last_checked = now] \in files']_vars

\* the first verify of a run failed on a/f, which is missing, and went on to
\* pass a later candidate
C16_Witness ==
    /\ last.cmd = "verify"
    /\ ncmd = 2
    /\ ~last.ok
    /\ Tracked(files, PA)
    /\ tree[PA].c = 0
    /\ \E r \in files : r.path # PA /\ r.last_checked = last.aid

\* C17: batch_insert is all or nothing: a batch with a record that cannot be
\* inserted (its path tracked already, twice in the batch, or outside the
\* repository) leaves the
\* Files and History tables as they were; a batch that succeeds gives every
\* record exactly one Files row and one Add row with the batch's action_id.
C17_BatchInsertIsAtomic ==
    [][last'.cmd = "batch_insert_file_records" /\ ncmd' = ncmd + 1 =>
         LET recs == last'.arg
             Rel(i) == ConvertToRelativePath(recs[i][1])
             Bad(i) == \/ ~Rel(i).ok
                       \/ Tracked(files, Rel(i).v)
                       \/ \E j \in 1..(i - 1) : Rel(j).v = Rel(i).v
         IN /\ last'.ok <=> ~ \E i \in 1..Len(recs) : Bad(i)
            /\ ~last'.ok => files' = files /\ history' = history
            /\ last'.ok =>
                  /\ Cardinality(files') = Cardinality(files) + Len(recs)
                  /\ Len(history') = Len(history) + Len(recs)
                  /\ SubSeq(history', 1, Len(history)) = history
                  /\ \A i \in 1..Len(recs) :
                        /\ Cardinality({r \in files' :
                              /\ r.path = Rel(i).v
                              /\ r.b3sum = recs[i][2]
                              /\ r.size = recs[i][3]}) = 1
                        /\ Cardinality({j \in (Len(history) + 1)..Len(history') :
                              /\ history'[j].path = Rel(i).v
                              /\ history'[j].action_type = ActionAdd
                              /\ history'[j].action_id = last'.aid
                              /\ history'[j].b3sum = recs[i][2]}) = 1]_vars

\* a batch refused for its second record, a path outside the repository, whose
\* first record could have been inserted
C17_Witness ==
    /\ last.cmd = "batch_insert_file_records"
    /\ ~last.ok
    /\ Len(last.arg) = 2
    /\ ~ConvertToRelativePath(last.arg[2][1]).ok
    /\ ~Tracked(files, last.arg[1][1])

\* a file whose copy into the object store cannot succeed: its object is
\* absent and the store is full or the file cannot be read
CopyMustFail(p) ==
    /\ tree[p].c # 0
    /\ objects[Hash(tree[p].c)] = 0
    /\ storeFull \/ p \in unreadable

\* C18: add writes the Files and History rows of a new or changed file after
\* its object is in the store: every Add or Update row it appends names a
\* present object, and a file whose copy fails gets no Files row and no
\* History row.
C18_NoRowWithoutObject ==
    [][IsRun("add") =>
         /\ \A h \in NewRows :
               h.action_type \in {ActionAdd, ActionUpdate}
                  => objects'[h.b3sum] # 0
         /\ \A p \in Paths :
               CopyMustFail(p) =>
                  /\ {r \in files' : r.path = p} = {r \in files : r.path = p}
                  /\ ~ \E h \in NewRows : h.path = p]_vars

\* C19: an add that stops after writing a file's object and before that
\* file's transaction leaves no Files row and no History row for the file;
\* the prune that follows deletes the object unless a FileRecord or a
\* HistoryRecord references its fingerprint.
C19_StoppedAddLeavesAnOrphan ==
    [][/\ last'.cmd = "add stopped" /\ ncmd' = ncmd + 1 =>
            /\ objects[last'.res[2]] = 0
            /\ objects'[last'.res[2]] # 0
            /\ {r \in files' : r.path = last'.res[1]}
                  = {r \in files : r.path = last'.res[1]}
            /\ ~ \E r \in files' : /\ r.path = last'.res[1]
                                   /\ r.b3sum = last'.res[2]
            /\ ~ \E h \in NewRows : h.path = last'.res[1]
       /\ last.cmd = "add stopped" /\ IsRun("prune") =>
            \/ \E r \in files : r.b3sum = last.res[2]
            \/ \E i \in 1..Len(history') : history'[i].b3sum = last.res[2]
            \/ objects'[last.res[2]] = 0]_vars

\* a prune, the second command on a fresh repository, that swept an object
\* while the catalog and the history are empty: the add before it had stopped
C19_Witness ==
    /\ last.cmd = "prune"
    /\ ncmd = 2
    /\ last.n >= 1
    /\ files = {}
    /\ history = <<>>

\* C20: when two writers ingest files of one fingerprint and both found the
\* target absent, a writer whose copy_to_object_store has returned Ok has the
\* complete object in the store: objects/<fingerprint> holds the content with
\* that fingerprint, never a partly written file.
BothFoundAbsent ==
    /\ \A w \in Writers : writers[w].found = "absent"
    /\ \A v, w \in Writers : writers[v].sum = writers[w].sum

C20_ReturnedWriterHasCompleteObject ==
    BothFoundAbsent =>
        \A w \in Writers :
            writers[w].pc \in {"ok", "committed", "failed"} =>
                Hash(objects[writers[w].sum]) = writers[w].sum

\* C21: the History rows one command writes all carry that command's
\* action_id, and no row written by an earlier command carries it, also when
\* the two commands start within the same second.
C21_ActionIdNamesOneCommand ==
    [][ncmd' = ncmd + 1 /\ NewRows # {} =>
          /\ \A h \in NewRows : h.action_id = last'.aid
          /\ \A i \in 1..Len(history) : history[i].action_id # last'.aid]_vars

\* C22: a History row, once inserted, is never modified; a step that is not a
\* prune removes no row; a prune removes only Delete rows whose action_id is
\* below the retention cutoff, so Add, Update and Rename rows stay for ever,
\* and a prune changes no Files row.
RECURSIVE DropRows(_, _, _)
DropRows(hs, R, i) ==
    IF i > Len(hs) THEN <<>>
    ELSE (IF i \in R THEN <<>> ELSE <<hs[i]>>) \o DropRows(hs, R, i + 1)

ExpiredDeleteRows ==
    {i \in 1..Len(history) : /\ history[i].action_type = ActionDelete
                             /\ history[i].action_id < now - RetentionSecs}

C22_HistoryIsAppendOnly ==
    [][/\ ~IsRun("prune") =>
            /\ Len(history') >= Len(history)
            /\ SubSeq(history', 1, Len(history)) = history
       /\ IsRun("prune") =>
            /\ files' = files
            /\ \E R \in SUBSET ExpiredDeleteRows :
                  history' = DropRows(history, R, 1)]_vars

\* a prune has removed a Delete row and left an Add row that is older than
\* the cutoff
C22_Witness ==
    /\ last.cmd = "prune"
    /\ last.res[1] >= 1
    /\ \E i \in 1..Len(history) :
          /\ history[i].action_type = ActionAdd
          /\ history[i].action_id < now - RetentionSecs

\* C23: every path stored in a Files row or a History row is relative to the
\* repository root: it has no leading '/' and no '..' component, whatever
\* absolute or relative path the operation was given.
HasParentDir(p) ==
    \E i \in 1..(Len(p) - 1) :
        /\ p[i] = "." /\ p[i + 1] = "."
        /\ i = 1 \/ p[i - 1] = "/"
        /\ i + 1 = Len(p) \/ p[i + 2] = "/"

IsRepoRelative(p) == ~IsAbsolute(p) /\ ~HasParentDir(p)

C23_StoredPathsAreRelative ==
    /\ \A r \in files : IsRepoRelative(r.path)
    /\ \A i \in 1..Len(history) : IsRepoRelative(history[i].path)

\* C24: a tracked file whose content changed while its size is as recorded
\* and its mtime is not later than the record's updated_at is left as it is
\* by add (the FileRecord stays, no history row for the path), and a
\* verify --force reports it failed, with the expected and the actual
\* fingerprint.
SilentlyChanged(r) ==
    /\ tree[r.path].c # 0
    /\ r.path \notin unreadable
    /\ Size(tree[r.path].c) = r.size
    /\ tree[r.path].m <= r.updated_at
    /\ Hash(tree[r.path].c) # r.b3sum

ReportedFailure(r) ==
    [file_path |-> r.path, expected_checksum |-> r.b3sum,
     actual_checksum |-> Hash(tree[r.path].c)]

C24_SilentChangeMissedByAddFoundByVerify ==
    [][\A r \in files : SilentlyChanged(r) =>
          /\ IsRun("add") /\ InDir(r.path, Canonicalize(last'.arg)) =>
                /\ r \in files'
                /\ \A h \in NewRows : h.path # r.path
          /\ IsRun("verify") /\ StepForce =>
                /\ ReportedFailure(r) \in last'.res[7]
                /\ ~last'.ok
                /\ last'.res[3] >= 1
                /\ r \in files']_vars

\* a verify --force right after an add of the whole tree: the add left the
\* silently changed file alone, the verify reported it
C24_Witness ==
    /\ last.cmd = "verify"
    /\ last.arg = <<"force">>
    /\ last.res[8] = <<"add", ArgDot>>
    /\ \E r \in files : /\ SilentlyChanged(r)
                        /\ ReportedFailure(r) \in last.res[7]
                        /\ \A i \in 1..Len(history) :
                              history[i].path = r.path =>
                                 history[i].action_type = ActionAdd

\* what detect_changes was given and what it returned
Detected == last.res[1]
Scanned == last.res[2]
TrackedList == last.res[3]
CandidateDeleted == SeqPaths(TrackedList) \ SeqPaths(Scanned)
CandidateNew == SeqPaths(Scanned) \ SeqPaths(TrackedList)
RenamedOld == {Detected.renames[i][1].path : i \in 1..Len(Detected.renames)}
RenamedNew == {Detected.renames[i][2].path : i \in 1..Len(Detected.renames)}

\* C25: detect_changes in full mode reports a deleted record and a new file
\* as a rename only if the file's fingerprint and size are the record's; a
\* record whose fingerprint no new file has is reported deleted, and a new
\* file whose fingerprint no deleted record has is reported new.
C25_RenameNeedsSameContent ==
    last.cmd = "detect_changes" /\ last.ok =>
        /\ \A i \in 1..Len(Detected.renames) :
              \E r \in files :
                 /\ r.path = Detected.renames[i][1].path
                 /\ r.b3sum = Hash(tree[Detected.renames[i][2].path].c)
                 /\ r.size = Size(tree[Detected.renames[i][2].path].c)
        /\ \A p \in CandidateDeleted :
              (\A q \in CandidateNew :
                  Hash(tree[q].c) # RecordAt(files, p).b3sum)
                 => p \in SeqPaths(Detected.deleted)
        /\ \A q \in CandidateNew :
              (\A p \in CandidateDeleted :
                  Hash(tree[q].c) # RecordAt(files, p).b3sum)
                 => q \in SeqPaths(Detected.new)

\* one record whose file is gone and one untracked file with another
\* content: reported as one deleted and one new, no rename
C25_Witness ==
    /\ last.cmd = "detect_changes"
    /\ last.ok
    /\ Detected.renames = <<>>
    /\ Len(Detected.deleted) = 1
    /\ Len(Detected.new) = 1
    /\ Detected.deleted[1].size = Detected.new[1].size
    /\ Detected.deleted[1].b3sum # Hash(tree[Detected.new[1].path].c)

\* C26: an add that finds two untracked, readable files of one content,
\* which no FileRecord has yet, leaves a FileRecord with that content's fingerprint at both paths and the
\* object of that fingerprint in the store, holding that content; dedup
\* reports one group per fingerprint that several FileRecords carry, made of
\* exactly the paths of those records, so for two identical files it
\* reports exactly one group, with both paths.
PathsWith(h) == {r.path : r \in {x \in files : x.b3sum = h}}

Addable(p) ==
    /\ tree[p].c # 0
    /\ p \notin unreadable
    /\ ~Tracked(files, p)
    /\ InDir(p, Canonicalize(last'.arg))
    /\ PathsWith(Hash(tree[p].c)) = {}
    /\ objects[Hash(tree[p].c)] # 0 \/ ~storeFull

C26_IdenticalFilesShareOneObject ==
    [][/\ IsRun("add") /\ last'.ok =>
            \A p, q \in Paths :
               /\ p # q
               /\ Addable(p)
               /\ Addable(q)
               /\ tree[p].c = tree[q].c
               => /\ \E r \in files' : r.path = p /\ r.b3sum = Hash(tree[p].c)
                  /\ \E r \in files' : r.path = q /\ r.b3sum = Hash(tree[p].c)
                  /\ objects'[Hash(tree[p].c)] = tree[p].c
       /\ IsRun("dedup") /\ last'.ok =>
            {<<g.checksum, Range(g.files)>> : g \in last'.res[1]}
               = {<<h, PathsWith(h)>> :
                    h \in {h \in Fingerprints : Cardinality(PathsWith(h)) > 1}}
      ]_vars

\* add '.' on a fresh repository with two identical files, then dedup: one
\* group, made of the two paths, and the object is in the store
C26_Witness ==
    /\ last.cmd = "dedup"
    /\ last.ok
    /\ ncmd = 2
    /\ Len(history) >= 2
    /\ \E g \in last.res[1] :
          /\ last.res[1] = {g}
          /\ Len(g.files) = 2
          /\ objects[g.checksum] # 0
          /\ \A i \in 1..2 : \E r \in files : /\ r.path = g.files[i]
                                              /\ r.b3sum = g.checksum

\* C27: on a repository with no FileRecord, no history row, no object and no
\* working file, every command that is given valid input (add of a path
\* inside the repository, rm tracked, rm deleted, verify, dedup, status,
\* prune, log list, log show with a well-formed id) returns success with an
\* empty result and leaves the catalog, the history and the object store as
\* they are.
EmptyRepository ==
    /\ files = {}
    /\ history = <<>>
    /\ objects = EmptyStore
    /\ \A p \in Paths : tree[p].c = 0

WellFormedInput ==
    /\ last'.cmd = "add" => last'.arg \in AddArgs
    /\ last'.cmd = "dedup" => PatternNew(last'.arg)
    /\ last'.cmd = "log show" =>
          /\ Base58Decode(last'.arg).ok
          /\ Len(Base58Decode(last'.arg).v) = ActionIdBytes

C27_EmptyRepositoryCommandsSucceed ==
    [][EmptyRepository /\ ncmd' = ncmd + 1 /\ WellFormedInput =>
          /\ last'.ok
          /\ last'.n = 0
          /\ files' = files
          /\ history' = history
          /\ objects' = objects]_vars

\* C28: a command given a path outside the repository (add), a glob that
\* does not parse (dedup --path) or an action id that is not base58 of
\* exactly 8 bytes (log show) fails with a Validation error and leaves the
\* catalog, the history and the object store as they are.
C28_InvalidInputIsAValidationError ==
    [][ncmd' = ncmd + 1 /\ last'.cmd \in {"add", "dedup", "log show"}
          /\ ~WellFormedInput =>
          /\ ~last'.ok
          /\ last'.res[1] = "Validation"
          /\ files' = files
          /\ history' = history
          /\ objects' = objects]_vars

\* C29: init run in the root of a repository that validate_repository accepts
\* changes nothing: the FileRecords, the history rows, the objects, the ignore
\* file, the configuration and the rest of the control directory are as they
\* were, however often init is repeated.
C29_ReInitIsNoOp ==
    [][(last'.cmd = "init" /\ ValidateRepository(repo)) =>
          /\ last'.ok
          /\ UNCHANGED <<files, history, objects, repo, tree>>]_vars

\* init ran twice in a row on a valid repository that has a FileRecord, a
\* history row and an object, whose ignore file the user removed
C29_Witness ==
    /\ last.cmd = "init"
    /\ last.res[1] >= 2
    /\ last.res[2]
    /\ files # {}
    /\ history # <<>>
    /\ objects # EmptyStore
    /\ repo.ignore = "absent"

\* C30: whatever detect_changes is given, with or without checksums, the
\* paths it returns as new, changed, deleted, rename-old and rename-new are
\* pairwise disjoint, every rename pairs a candidate-deleted path (tracked,
\* not scanned) with a candidate-new path (scanned, not tracked), no path is
\* in two pairs, and new and the renames count the candidate-new paths,
\* deleted and the renames the candidate-deleted paths.
IsDetection == last.cmd \in {"detect_changes", "detect_changes (metadata)"}

C30_DetectChangesPartitions ==
    IsDetection /\ last.ok =>
        LET new == SeqPaths(Detected.new)
            changed == SeqPaths(Detected.changed)
            deleted == SeqPaths(Detected.deleted)
            n == Len(Detected.renames)
        IN /\ new \cap changed = {} /\ new \cap deleted = {}
           /\ new \cap RenamedOld = {} /\ new \cap RenamedNew = {}
           /\ changed \cap deleted = {} /\ changed \cap RenamedOld = {}
           /\ changed \cap RenamedNew = {} /\ deleted \cap RenamedOld = {}
           /\ deleted \cap RenamedNew = {} /\ RenamedOld \cap RenamedNew = {}
           /\ RenamedOld \subseteq CandidateDeleted
           /\ RenamedNew \subseteq CandidateNew
           /\ Cardinality(RenamedOld) = n
           /\ Cardinality(RenamedNew) = n
           /\ Len(Detected.new) + n = Cardinality(CandidateNew)
           /\ Len(Detected.deleted) + n = Cardinality(CandidateDeleted)
           /\ Cardinality(new) = Len(Detected.new)
           /\ Cardinality(deleted) = Len(Detected.deleted)
           /\ Cardinality(changed) = Len(Detected.changed)

\* two records whose files are gone and one untracked file that has the
\* metadata of both: one rename, the other record is deleted, nothing is new
C30_Witness ==
    /\ last.cmd = "detect_changes (metadata)"
    /\ Len(Detected.renames) = 1
    /\ Len(Detected.deleted) = 1
    /\ Detected.new = <<>>
    /\ MetadataKey(Detected.deleted[1]) = MetadataKey(Detected.renames[1][1])

\* C31: when k deleted files and m new files have one size and creation
\* time, find_potential_renames_by_metadata returns min(k, m) pairs of that
\* key, the i-th deleted file of the key with the i-th new one, and no file
\* is in two pairs.
OfKey(fs, key) == SelectSeq(fs, LAMBDA f : MetadataKey(f) = key)

C31_PairsInEncounterOrder ==
    last.cmd = "find_potential_renames_by_metadata" =>
        LET renames == last.res[1]
            deleted == last.res[2]
            news == last.res[3]
        IN /\ \A key \in {MetadataKey(deleted[i]) : i \in 1..Len(deleted)} :
                 LET ds == OfKey(deleted, key)
                     ns == OfKey(news, key)
                     ps == SelectSeq(renames,
                                     LAMBDA x : MetadataKey(x[1]) = key)
                 IN /\ Len(ps) = Min(Len(ds), Len(ns))
                    /\ \A i \in 1..Len(ps) : /\ ps[i][1].path = ds[i].path
                                              /\ ps[i][2].path = ns[i].path
           /\ \A i, j \in 1..Len(renames) :
                 i # j => /\ renames[i][1].path # renames[j][1].path
                          /\ renames[i][2].path # renames[j][2].path

\* C32: whatever path add is given inside the repository, a scanned file whose
\* path has a FileRecord is matched with that record: detect_changes never
\* returns it as new, so add never inserts a path that is already tracked.
C32_TrackedPathIsNeverNew ==
    last.cmd = "detect_changes" /\ last.ok =>
        \A i \in 1..Len(Detected.new) :
           \A r \in files : r.path # Detected.new[i].path

\* C33: a rename of a tracked path to another, free path changes only the
\* path of its FileRecord (id, fingerprint, size, created_at, updated_at and
\* last_checked stay), leaves the object store alone, and appends exactly one
\* history row: a Rename with the new path, the record's fingerprint and size
\* and old_path = the old path.
C33_RenameChangesOnlyThePath ==
    [][(/\ last'.cmd = "rename_file_record"
        /\ last'.ok
        /\ last'.arg[1] # last'.arg[2]
        /\ Tracked(files, last'.arg[1])) =>
          LET old == RecordAt(files, last'.arg[1])
          IN /\ files' = (files \ {old})
                            \cup {[old EXCEPT !.path = last'.arg[2]]}
             /\ objects' = objects
             /\ Len(history') = Len(history) + 1
             /\ \A h \in NewRows :
                   /\ h.action_type = ActionRename
                   /\ h.path = last'.arg[2]
                   /\ h.b3sum = old.b3sum
                   /\ h.size = old.size
                   /\ h.old_path = last'.arg[1]]_vars

\* C34: when add finds a tracked file with another content, the FileRecord
\* keeps its id, path and created_at, gets the new fingerprint and size,
\* updated_at = the time of the update and last_checked = null; exactly one
\* history row is appended for the path, an Update with the new fingerprint;
\* the object of the old fingerprint stays in the store as it was, next to
\* the object of the new one.
C34_UpdateReplacesTheRecord ==
    [][IsRun("add") =>
         \A old \in files, new \in files' :
            (old.path = new.path /\ old.b3sum # new.b3sum) =>
               /\ new = [old EXCEPT !.b3sum = Hash(tree[old.path].c),
                                    !.size = Size(tree[old.path].c),
                                    !.updated_at = now,
                                    !.last_checked = Null]
               /\ \E h \in NewRows :
                     /\ h.action_type = ActionUpdate
                     /\ h.b3sum = new.b3sum
                     /\ \A g \in NewRows : g.path = old.path => g = h
               /\ Cardinality({i \in (Len(history) + 1)..Len(history') :
                                 history'[i].path = old.path}) = 1
               /\ objects[old.b3sum] # 0
               /\ objects'[old.b3sum] = objects[old.b3sum]
               /\ objects'[new.b3sum] # 0]_vars

\* an add whose last history row is the Update of a record: an older row of
\* the path carries the old fingerprint, both objects are in the store, and
\* the record has the new fingerprint and no check time
C34_Witness ==
    /\ last.cmd = "add"
    /\ last.ok
    /\ history # <<>>
    /\ history[Len(history)].action_type = ActionUpdate
    /\ history[Len(history)].action_id = last.aid
    /\ \E i \in 1..(Len(history) - 1) :
          /\ history[i].path = history[Len(history)].path
          /\ history[i].b3sum # history[Len(history)].b3sum
          /\ objects[history[i].b3sum] # 0
    /\ objects[history[Len(history)].b3sum] # 0
    /\ \E r \in files : /\ r.path = history[Len(history)].path
                         /\ r.b3sum = history[Len(history)].b3sum
                         /\ r.last_checked = Null

\* C35: a delete of paths none of which has a FileRecord changes nothing: the
\* files table is as before and no history row is appended.
C35_DeleteOfAbsentIsNoOp ==
    [][(/\ last'.cmd = "batch_delete_file_records"
        /\ last'.ok
        /\ \A i \in 1..Len(last'.arg) :
              /\ ConvertToRelativePath(last'.arg[i][1]).ok
              /\ ~Tracked(files, ConvertToRelativePath(last'.arg[i][1]).v)) =>
          /\ files' = files
          /\ history' = history]_vars

\* C36: a file that cannot be read costs an add only that file: every other
\* untracked, readable file the add scans is tracked afterwards with the
\* fingerprint of its content (the store accepting files, the whole
\* repository being added).
C36_UnreadableFileIsSkippedAlone ==
    [][(IsRun("add") /\ last'.arg = ArgDot /\ ~storeFull) =>
          \A p \in Paths :
             (tree[p].c # 0 /\ p \notin unreadable /\ ~Tracked(files, p)) =>
                \E r \in files' : /\ r.path = p
                                   /\ r.b3sum = Hash(tree[p].c)]_vars

\* C37: verify selects exactly the FileRecords that match its path filter
\* and, unless forced, were never checked or were last checked more than the
\* verify interval ago; so a record that passed is left out until the
\* interval has gone by, and a record that add updated, whose check time the
\* update cleared, is selected.
VerifyFilter == last'.res[11]
VerifyForced == last'.arg = <<"force">>
Selected == last'.res[9]

C37_VerifySelectsDueRecords ==
    [][/\ IsRun("verify") =>
            Selected = {r.path : r \in {x \in files :
                          /\ GlobMatches(VerifyFilter, x.path)
                          /\ \/ VerifyForced
                             \/ x.last_checked = Null
                             \/ now - x.last_checked > IntervalSecs}}
       /\ IsRun("add") =>
            \A old \in files, new \in files' :
               (old.path = new.path /\ old.b3sum # new.b3sum) =>
                  new.last_checked = Null]_vars

\* a verify without --force, the fourth command: it selected the record that
\* the add before it had updated and left out a record checked within the
\* interval
C37_Witness ==
    /\ last.cmd = "verify"
    /\ last.arg = <<>>
    /\ last.res[8][1] = "add"
    /\ \E i \in 1..Len(history) :
          /\ history[i].action_type = ActionUpdate
          /\ history[i].path \in last.res[9]
    /\ \E r \in files : /\ r.path \notin last.res[9]
                         /\ r.last_checked # Null
                         /\ GlobMatches(last.res[11], r.path)

\* C38: an ingest of a fingerprint that has an object succeeds without
\* writing: no add and no dedup changes an object that exists, and an add of
\* the whole repository tracks every readable untracked file whose
\* fingerprint has an object, also when the store accepts no new file.
C38_ExistingObjectIsKept ==
    [][/\ (IsRun("add") \/ IsRun("dedup")) =>
            \A h \in Fingerprints : objects[h] # 0 => objects'[h] = objects[h]
       /\ (IsRun("add") /\ last'.arg = ArgDot /\ unreadable = {}) =>
            \A p \in Paths :
               (/\ tree[p].c # 0
                /\ ~Tracked(files, p)
                /\ objects[Hash(tree[p].c)] # 0) =>
                  \E r \in files' : /\ r.path = p
                                     /\ r.b3sum = Hash(tree[p].c)]_vars

\* an add, made while the store was full, whose last history row is the Add
\* of a file with a fingerprint that an earlier row of another path carries:
\* the object was there and is there
C38_Witness ==
    /\ last.cmd = "add"
    /\ last.ok
    /\ storeFull
    /\ history # <<>>
    /\ history[Len(history)].action_type = ActionAdd
    /\ objects[history[Len(history)].b3sum] # 0
    /\ \E i \in 1..(Len(history) - 1) :
          /\ history[i].b3sum = history[Len(history)].b3sum
          /\ history[i].path # history[Len(history)].path
    /\ Tracked(files, history[Len(history)].path)

\* C39: in the result of every verify each candidate is counted once:
\* checked_files is the number of candidates and equals passed_files +
\* failed_files + skipped_files, also when the file of a candidate is
\* missing or unreadable, and the failures list has one entry per candidate
\* whose fingerprint differs.
C39_VerifyCountsEveryCandidate ==
    last.cmd = "verify" =>
        /\ last.res[1] = Cardinality(last.res[9])
        /\ last.res[1] = last.res[2] + last.res[3] + last.res[10]
        /\ Cardinality(last.res[7]) = last.res[4]
        /\ {f.file_path : f \in last.res[7]} \subseteq last.res[9]

\* the paths of the duplicate groups whose file holds the content of the
\* group when the command starts
IntactMembers ==
    {r.path : r \in {x \in files : /\ x.b3sum \in DuplicateChecksums(files)
                                   /\ tree[x.path].c # 0
                                   /\ Hash(tree[x.path].c) = x.b3sum}}

\* C40: the duplicate reclaim pass of dedup and of prune loses nothing: every
\* path of a duplicate group that holds the content of its group before the
\* pass still exists after it with content of the fingerprint of the group,
\* also when removing or re-linking a member fails; the catalog is unchanged,
\* and so is the history under dedup.
C40_ReclaimPassKeepsEveryMember ==
    [][(IsRun("dedup") \/ IsRun("prune")) =>
          /\ \A q \in IntactMembers :
                /\ tree'[q].c # 0
                /\ Hash(tree'[q].c) = RecordAt(files, q).b3sum
          /\ files' = files
          /\ IsRun("dedup") => history' = history]_vars

====
